---- MODULE Spec2Model ----
(***************************************************************************)
(* The uniques pallet (frame/uniques/src/lib.rs): classes of non-fungible  *)
(* assets, their instances, the reverse Account index, the two metadata    *)
(* maps, and the deposits the pallet reserves in the Currency.             *)
(*                                                                         *)
(* A dispatchable is an operator from a storage record and the call's      *)
(* arguments to [st, res, ev]: the storage the call leaves behind, its     *)
(* DispatchResult and the events it deposited.  Dispatchables of this      *)
(* version are not wrapped in a storage transaction: a write made before   *)
(* an error stays, so each error path returns the storage as it is at that *)
(* point of the code.  Only the value a try_mutate closure works on is     *)
(* dropped when the closure returns Err.                                   *)
(***************************************************************************)
EXTENDS Integers, Sequences, FiniteSets, TLC

\* ---------------------------------------------------------------- bounds
Accounts == {"a1", "a2"}
ClassIds == {1}
InstanceIds == {1, 2}
Root == "Root"
None == "None"
Origins == Accounts \cup {Root}
OptAccounts == Accounts \cup {None}

\* the calls that return Ok in one run (calls that return an error are not counted)
MaxCalls == 4
\* free balance every account starts with
InitialFree == 3
\* mint is not taken once free_holds has reached this value
MaxFreeHolds == 2
\* the metadata setters are not taken once total_deposit has reached this value
MaxTotalDeposit == 6

\* ------------------------------------------------------- configuration
ClassDeposit == 2
InstanceDeposit == 1
MetadataDepositBase == 1
MetadataDepositPerByte == 1
StringLimit == 1
\* u32::MAX, at the largest value the model checker's integers hold
U32Max == 2147483647

Bytes == {0}
RECURSIVE StringsUpTo(_)
StringsUpTo(n) ==
    IF n = 0 THEN {<<>>}
    ELSE LET shorter == StringsUpTo(n - 1)
         IN  shorter \cup {Append(s, b) : s \in {t \in shorter : Len(t) = n - 1}, b \in Bytes}
Strings == StringsUpTo(StringLimit + 1)
\* the (name, info) pairs the metadata setters are called with: both empty, both of
\* length StringLimit, and each in turn one byte too long
MetadataInputs ==
    {<<n, i>> \in Strings \X Strings :
        \/ Len(n) = 0 /\ Len(i) = 0
        \/ Len(n) = StringLimit /\ Len(i) = StringLimit
        \/ Len(n) = StringLimit + 1 /\ Len(i) = 0
        \/ Len(n) = 0 /\ Len(i) = StringLimit + 1}

VARIABLES Class, Asset, Account, ClassMetadataOf, InstanceMetadataOf,
          free, reserved, emitted, last, args, calls, paid, used

vars == <<Class, Asset, Account, ClassMetadataOf, InstanceMetadataOf,
          free, reserved, emitted, last, args, calls, paid, used>>

\* the storage of the pallet and of the Currency, as one record
Storage ==
    [Class |-> Class, Asset |-> Asset, Account |-> Account,
     ClassMetadataOf |-> ClassMetadataOf, InstanceMetadataOf |-> InstanceMetadataOf,
     free |-> free, reserved |-> reserved]

\* ------------------------------------------------------- storage maps
Put(m, k, v) == [x \in (DOMAIN m) \cup {k} |-> IF x = k THEN v ELSE m[x]]
Del(m, k) == [x \in (DOMAIN m) \ {k} |-> m[x]]

Min(a, b) == IF a < b THEN a ELSE b
saturating_sub(a, b) == IF a > b THEN a - b ELSE 0
saturating_add(a, b) == a + b

Ret(st, res, ev) == [st |-> st, res |-> res, ev |-> ev]
Err(st, e) == Ret(st, e, <<>>)
Event(name, data) == [name |-> name, data |-> data]

\* ------------------------------------------------------------ Currency
reserve(s, who, value) ==
    IF value = 0 THEN [ok |-> TRUE, st |-> s]
    ELSE IF s.free[who] < value THEN [ok |-> FALSE, st |-> s]
    ELSE [ok |-> TRUE,
          st |-> [s EXCEPT !.free[who] = @ - value, !.reserved[who] = @ + value]]

unreserve(s, who, value) ==
    LET actual == Min(s.reserved[who], value)
    IN  [s EXCEPT !.free[who] = @ + actual, !.reserved[who] = @ - actual]

\* `accepts` is the Currency's answer on whether the move can be made at all
repatriate_reserved(s, slashed, beneficiary, value, accepts) ==
    IF value = 0 THEN [ok |-> TRUE, st |-> s]
    ELSE IF ~accepts THEN [ok |-> FALSE, st |-> s]
    ELSE IF slashed = beneficiary THEN [ok |-> TRUE, st |-> s]
    ELSE LET actual == Min(s.reserved[slashed], value)
         IN  [ok |-> TRUE,
              st |-> [s EXCEPT !.reserved[slashed] = @ - actual,
                               !.reserved[beneficiary] = @ + actual]]

\* ------------------------------------------------------- dispatchables
\* create that makes the signer the issuer
create_owner_as_issuer(s, origin, class, admin) ==
    IF origin = Root THEN Err(s, "BadOrigin")
    ELSE IF class \in DOMAIN s.Class THEN Err(s, "InUse")
    ELSE LET r == reserve(s, origin, ClassDeposit) IN
         IF ~r.ok THEN Err(r.st, "InsufficientBalance")
         ELSE Ret([r.st EXCEPT !.Class = Put(@, class,
                      [owner |-> origin, issuer |-> origin, admin |-> admin,
                       freezer |-> admin, total_deposit |-> ClassDeposit,
                       free_holding |-> FALSE, instances |-> 0, free_holds |-> 0,
                       is_frozen |-> FALSE])],
                  "Ok", <<Event("Created", <<class, origin, admin>>)>>)

create(s, origin, class, admin) ==
    IF origin = Root THEN Err(s, "BadOrigin")
    ELSE IF class \in DOMAIN s.Class THEN Err(s, "InUse")
    ELSE LET r == reserve(s, origin, ClassDeposit) IN
         IF ~r.ok THEN Err(r.st, "InsufficientBalance")
         ELSE Ret([r.st EXCEPT !.Class = Put(@, class,
                      [owner |-> origin, issuer |-> admin, admin |-> admin,
                       freezer |-> admin, total_deposit |-> ClassDeposit,
                       free_holding |-> FALSE, instances |-> 0, free_holds |-> 0,
                       is_frozen |-> FALSE])],
                  "Ok", <<Event("Created", <<class, origin, admin>>)>>)

force_create(s, origin, class, owner, free_holding) ==
    IF origin # Root THEN Err(s, "BadOrigin")
    ELSE IF class \in DOMAIN s.Class THEN Err(s, "InUse")
    ELSE Ret([s EXCEPT !.Class = Put(@, class,
                 [owner |-> owner, issuer |-> owner, admin |-> owner,
                  freezer |-> owner, total_deposit |-> 0,
                  free_holding |-> free_holding, instances |-> 0, free_holds |-> 0,
                  is_frozen |-> FALSE])],
             "Ok", <<Event("ForceCreated", <<class, owner>>)>>)

\* the instances of `class` that drain_prefix yields
InstancesOf(s, class) == {k \in DOMAIN s.Asset : k[1] = class}


\* destroy that drains the instances without removing their metadata
destroy_keeps_instance_metadata(s, origin, class, witness) ==
    IF class \notin DOMAIN s.Class THEN Err(s, "Unknown")
    ELSE LET class_details == s.Class[class] IN
         IF origin # Root /\ class_details.owner # origin THEN Err(s, "NoPermission")
         ELSE IF class_details.instances # witness.instances THEN Err(s, "BadWitness")
         ELSE IF class_details.free_holds # witness.free_holds THEN Err(s, "BadWitness")
         ELSE LET drained == InstancesOf(s, class)
                  s1 == [s EXCEPT
                           !.Asset = [k \in (DOMAIN @) \ drained |-> @[k]],
                           !.Account = @ \ {<<s.Asset[k].owner, k[1], k[2]>> : k \in drained},
                           !.ClassMetadataOf = Del(@, class)]
                  s2 == unreserve(s1, class_details.owner, class_details.total_deposit)
              IN  Ret([s2 EXCEPT !.Class = Del(@, class)], "Ok",
                      <<Event("Destroyed", <<class>>)>>)

\* destroy that compares only the instances counter with the witness
destroy_ignores_free_holds(s, origin, class, witness) ==
    IF class \notin DOMAIN s.Class THEN Err(s, "Unknown")
    ELSE LET class_details == s.Class[class] IN
         IF origin # Root /\ class_details.owner # origin THEN Err(s, "NoPermission")
         ELSE IF class_details.instances # witness.instances THEN Err(s, "BadWitness")
         ELSE LET drained == InstancesOf(s, class)
                  s1 == [s EXCEPT
                           !.Asset = [k \in (DOMAIN @) \ drained |-> @[k]],
                           !.Account = @ \ {<<s.Asset[k].owner, k[1], k[2]>> : k \in drained},
                           !.InstanceMetadataOf = [k \in (DOMAIN @) \ drained |-> @[k]],
                           !.ClassMetadataOf = Del(@, class)]
                  s2 == unreserve(s1, class_details.owner, class_details.total_deposit)
              IN  Ret([s2 EXCEPT !.Class = Del(@, class)], "Ok",
                      <<Event("Destroyed", <<class>>)>>)

\* destroy that leaves the reverse index of the drained instances in place
destroy_keeps_account(s, origin, class, witness) ==
    IF class \notin DOMAIN s.Class THEN Err(s, "Unknown")
    ELSE LET class_details == s.Class[class] IN
         IF origin # Root /\ class_details.owner # origin THEN Err(s, "NoPermission")
         ELSE IF class_details.instances # witness.instances THEN Err(s, "BadWitness")
         ELSE IF class_details.free_holds # witness.free_holds THEN Err(s, "BadWitness")
         ELSE LET drained == InstancesOf(s, class)
                  s1 == [s EXCEPT
                           !.Asset = [k \in (DOMAIN @) \ drained |-> @[k]],
                           !.InstanceMetadataOf = [k \in (DOMAIN @) \ drained |-> @[k]],
                           !.ClassMetadataOf = Del(@, class)]
                  s2 == unreserve(s1, class_details.owner, class_details.total_deposit)
              IN  Ret([s2 EXCEPT !.Class = Del(@, class)], "Ok",
                      <<Event("Destroyed", <<class>>)>>)

destroy(s, origin, class, witness) ==
    IF class \notin DOMAIN s.Class THEN Err(s, "Unknown")
    ELSE LET class_details == s.Class[class] IN
         IF origin # Root /\ class_details.owner # origin THEN Err(s, "NoPermission")
         ELSE IF class_details.instances # witness.instances THEN Err(s, "BadWitness")
         ELSE IF class_details.free_holds # witness.free_holds THEN Err(s, "BadWitness")
         ELSE LET drained == InstancesOf(s, class)
                  s1 == [s EXCEPT
                           !.Asset = [k \in (DOMAIN @) \ drained |-> @[k]],
                           !.Account = @ \ {<<s.Asset[k].owner, k[1], k[2]>> : k \in drained},
                           !.InstanceMetadataOf = [k \in (DOMAIN @) \ drained |-> @[k]],
                           !.ClassMetadataOf = Del(@, class)]
                  s2 == unreserve(s1, class_details.owner, class_details.total_deposit)
              IN  Ret([s2 EXCEPT !.Class = Del(@, class)], "Ok",
                      <<Event("Destroyed", <<class>>)>>)

\* addition that wraps around at the width of the counter
wrapping_add(a, b) == IF a > U32Max - b THEN {a - U32Max - 1 + b} ELSE {a + b}

\* Option<u32> as a set: {} is None, {x} is Some(x)
checked_add(a, b) == IF a > U32Max - b THEN {} ELSE {a + b}
unwrap(opt) == CHOOSE x \in opt : TRUE


\* mint with the instances counter written to Class before the reserve is tried
mint_counts_before_reserve(s, origin, class, instance, owner) ==
    IF origin = Root THEN Err(s, "BadOrigin")
    ELSE IF <<class, instance>> \in DOMAIN s.Asset THEN Err(s, "AlreadyExists")
    ELSE IF class \notin DOMAIN s.Class THEN Err(s, "Unknown")
    ELSE LET cd0 == s.Class[class] IN
         IF cd0.issuer # origin THEN Err(s, "NoPermission")
         ELSE IF checked_add(cd0.instances, 1) = {} THEN Err(s, "Overflow")
         ELSE LET cd1 == [cd0 EXCEPT !.instances = unwrap(checked_add(cd0.instances, 1))]
                  written == [s EXCEPT !.Class = Put(@, class, cd1)]
                  r == reserve(written, cd1.owner, InstanceDeposit)
                  deposit == IF cd1.free_holding THEN 0 ELSE InstanceDeposit
                  cd2 == IF cd1.free_holding
                         THEN [cd1 EXCEPT !.free_holds = @ + 1]
                         ELSE [cd1 EXCEPT !.total_deposit = @ + deposit]
                  s1 == IF cd1.free_holding THEN written ELSE r.st
                  details == [owner |-> owner, approved |-> None,
                              is_frozen |-> FALSE, deposit |-> deposit]
              IN  IF ~cd1.free_holding /\ ~r.ok THEN Err(r.st, "InsufficientBalance")
                  ELSE Ret([s1 EXCEPT
                              !.Account = @ \cup {<<owner, class, instance>>},
                              !.Asset = Put(@, <<class, instance>>, details),
                              !.Class = Put(@, class, cd2)],
                           "Ok", <<Event("Issued", <<class, instance, owner>>)>>)

\* mint that takes the instance deposit whatever free_holding is
mint_always_reserves(s, origin, class, instance, owner) ==
    IF origin = Root THEN Err(s, "BadOrigin")
    ELSE IF <<class, instance>> \in DOMAIN s.Asset THEN Err(s, "AlreadyExists")
    ELSE IF class \notin DOMAIN s.Class THEN Err(s, "Unknown")
    ELSE LET cd0 == s.Class[class] IN
         IF cd0.issuer # origin THEN Err(s, "NoPermission")
         ELSE IF checked_add(cd0.instances, 1) = {} THEN Err(s, "Overflow")
         ELSE LET cd1 == [cd0 EXCEPT !.instances = unwrap(checked_add(cd0.instances, 1))]
                  r == reserve(s, cd1.owner, InstanceDeposit)
                  deposit == IF FALSE THEN 0 ELSE InstanceDeposit
                  cd2 == IF FALSE
                         THEN [cd1 EXCEPT !.free_holds = @ + 1]
                         ELSE [cd1 EXCEPT !.total_deposit = @ + deposit]
                  s1 == IF FALSE THEN s ELSE r.st
                  details == [owner |-> owner, approved |-> None,
                              is_frozen |-> FALSE, deposit |-> deposit]
              IN  IF ~FALSE /\ ~r.ok THEN Err(r.st, "InsufficientBalance")
                  ELSE Ret([s1 EXCEPT
                              !.Account = @ \cup {<<owner, class, instance>>},
                              !.Asset = Put(@, <<class, instance>>, details),
                              !.Class = Put(@, class, cd2)],
                           "Ok", <<Event("Issued", <<class, instance, owner>>)>>)

\* mint that takes the instance deposit from the signer
mint_reserves_from_signer(s, origin, class, instance, owner) ==
    IF origin = Root THEN Err(s, "BadOrigin")
    ELSE IF <<class, instance>> \in DOMAIN s.Asset THEN Err(s, "AlreadyExists")
    ELSE IF class \notin DOMAIN s.Class THEN Err(s, "Unknown")
    ELSE LET cd0 == s.Class[class] IN
         IF cd0.issuer # origin THEN Err(s, "NoPermission")
         ELSE IF checked_add(cd0.instances, 1) = {} THEN Err(s, "Overflow")
         ELSE LET cd1 == [cd0 EXCEPT !.instances = unwrap(checked_add(cd0.instances, 1))]
                  r == reserve(s, origin, InstanceDeposit)
                  deposit == IF cd1.free_holding THEN 0 ELSE InstanceDeposit
                  cd2 == IF cd1.free_holding
                         THEN [cd1 EXCEPT !.free_holds = @ + 1]
                         ELSE [cd1 EXCEPT !.total_deposit = @ + deposit]
                  s1 == IF cd1.free_holding THEN s ELSE r.st
                  details == [owner |-> owner, approved |-> None,
                              is_frozen |-> FALSE, deposit |-> deposit]
              IN  IF ~cd1.free_holding /\ ~r.ok THEN Err(r.st, "InsufficientBalance")
                  ELSE Ret([s1 EXCEPT
                              !.Account = @ \cup {<<owner, class, instance>>},
                              !.Asset = Put(@, <<class, instance>>, details),
                              !.Class = Put(@, class, cd2)],
                           "Ok", <<Event("Issued", <<class, instance, owner>>)>>)

mint(s, origin, class, instance, owner) ==
    IF origin = Root THEN Err(s, "BadOrigin")
    ELSE IF <<class, instance>> \in DOMAIN s.Asset THEN Err(s, "AlreadyExists")
    ELSE IF class \notin DOMAIN s.Class THEN Err(s, "Unknown")
    ELSE LET cd0 == s.Class[class] IN
         IF cd0.issuer # origin THEN Err(s, "NoPermission")
         ELSE IF checked_add(cd0.instances, 1) = {} THEN Err(s, "Overflow")
         ELSE LET cd1 == [cd0 EXCEPT !.instances = unwrap(checked_add(cd0.instances, 1))]
                  r == reserve(s, cd1.owner, InstanceDeposit)
                  deposit == IF cd1.free_holding THEN 0 ELSE InstanceDeposit
                  cd2 == IF cd1.free_holding
                         THEN [cd1 EXCEPT !.free_holds = @ + 1]
                         ELSE [cd1 EXCEPT !.total_deposit = @ + deposit]
                  s1 == IF cd1.free_holding THEN s ELSE r.st
                  details == [owner |-> owner, approved |-> None,
                              is_frozen |-> FALSE, deposit |-> deposit]
              IN  IF ~cd1.free_holding /\ ~r.ok THEN Err(r.st, "InsufficientBalance")
                  ELSE Ret([s1 EXCEPT
                              !.Account = @ \cup {<<owner, class, instance>>},
                              !.Asset = Put(@, <<class, instance>>, details),
                              !.Class = Put(@, class, cd2)],
                           "Ok", <<Event("Issued", <<class, instance, owner>>)>>)


\* burn that leaves the instances counter as it was
burn_keeps_instances(s, origin, class, instance, check_owner) ==
    IF origin = Root THEN Err(s, "BadOrigin")
    ELSE IF class \notin DOMAIN s.Class THEN Err(s, "Unknown")
    ELSE IF <<class, instance>> \notin DOMAIN s.Asset THEN Err(s, "Unknown")
    ELSE LET cd0 == s.Class[class]
             details == s.Asset[<<class, instance>>]
             is_permitted == cd0.admin = origin \/ details.owner = origin
         IN
         IF ~is_permitted THEN Err(s, "NoPermission")
         ELSE IF check_owner # None /\ check_owner # details.owner THEN Err(s, "WrongOwner")
         ELSE LET s1 == IF details.deposit # 0
                        THEN unreserve(s, cd0.owner, details.deposit) ELSE s
                  cd1 == IF details.deposit # 0
                         THEN [cd0 EXCEPT !.total_deposit = saturating_sub(@, details.deposit)]
                         ELSE cd0
                  hasMeta == <<class, instance>> \in DOMAIN s1.InstanceMetadataOf
                  metadata == s1.InstanceMetadataOf[<<class, instance>>]
                  s2 == IF hasMeta
                        THEN unreserve([s1 EXCEPT !.InstanceMetadataOf = Del(@, <<class, instance>>)],
                                       cd1.owner, metadata.deposit)
                        ELSE s1
                  cd3 == IF hasMeta
                         THEN [cd1 EXCEPT !.total_deposit = saturating_sub(@, metadata.deposit)]
                         ELSE cd1
              IN  Ret([s2 EXCEPT
                         !.Class = Put(@, class, cd3),
                         !.Asset = Del(@, <<class, instance>>),
                         !.Account = @ \ {<<details.owner, class, instance>>}],
                      "Ok", <<Event("Burned", <<class, instance, details.owner>>)>>)

burn(s, origin, class, instance, check_owner) ==
    IF origin = Root THEN Err(s, "BadOrigin")
    ELSE IF class \notin DOMAIN s.Class THEN Err(s, "Unknown")
    ELSE IF <<class, instance>> \notin DOMAIN s.Asset THEN Err(s, "Unknown")
    ELSE LET cd0 == s.Class[class]
             details == s.Asset[<<class, instance>>]
             is_permitted == cd0.admin = origin \/ details.owner = origin
         IN
         IF ~is_permitted THEN Err(s, "NoPermission")
         ELSE IF check_owner # None /\ check_owner # details.owner THEN Err(s, "WrongOwner")
         ELSE LET s1 == IF details.deposit # 0
                        THEN unreserve(s, cd0.owner, details.deposit) ELSE s
                  cd1 == IF details.deposit # 0
                         THEN [cd0 EXCEPT !.total_deposit = saturating_sub(@, details.deposit)]
                         ELSE cd0
                  cd2 == [cd1 EXCEPT !.instances = saturating_sub(@, 1)]
                  hasMeta == <<class, instance>> \in DOMAIN s1.InstanceMetadataOf
                  metadata == s1.InstanceMetadataOf[<<class, instance>>]
                  s2 == IF hasMeta
                        THEN unreserve([s1 EXCEPT !.InstanceMetadataOf = Del(@, <<class, instance>>)],
                                       cd2.owner, metadata.deposit)
                        ELSE s1
                  cd3 == IF hasMeta
                         THEN [cd2 EXCEPT !.total_deposit = saturating_sub(@, metadata.deposit)]
                         ELSE cd2
              IN  Ret([s2 EXCEPT
                         !.Class = Put(@, class, cd3),
                         !.Asset = Del(@, <<class, instance>>),
                         !.Account = @ \ {<<details.owner, class, instance>>}],
                      "Ok", <<Event("Burned", <<class, instance, details.owner>>)>>)


\* transfer that leaves the Account entry of the previous owner in place
transfer_keeps_account(s, origin, class, instance, dest) ==
    IF origin = Root THEN Err(s, "BadOrigin")
    ELSE IF class \notin DOMAIN s.Class THEN Err(s, "Unknown")
    ELSE IF s.Class[class].is_frozen THEN Err(s, "Frozen")
    ELSE IF <<class, instance>> \notin DOMAIN s.Asset THEN Err(s, "Unknown")
    ELSE LET class_details == s.Class[class]
             details0 == s.Asset[<<class, instance>>]
             needs_approval == details0.owner # origin /\ class_details.admin # origin
             approved == details0.approved = origin
             details1 == IF needs_approval THEN [details0 EXCEPT !.approved = None] ELSE details0
         IN
         IF details0.is_frozen THEN Err(s, "Frozen")
         ELSE IF needs_approval /\ ~approved THEN Err(s, "NoPermission")
         ELSE Ret([s EXCEPT
                     !.Account = @
                                     \cup {<<dest, class, instance>>},
                     !.Asset = Put(@, <<class, instance>>, [details1 EXCEPT !.owner = dest])],
                  "Ok", <<Event("Transferred", <<class, instance, origin, dest>>)>>)

\* transfer that reads the approval without taking it
transfer_keeps_approval(s, origin, class, instance, dest) ==
    IF origin = Root THEN Err(s, "BadOrigin")
    ELSE IF class \notin DOMAIN s.Class THEN Err(s, "Unknown")
    ELSE IF s.Class[class].is_frozen THEN Err(s, "Frozen")
    ELSE IF <<class, instance>> \notin DOMAIN s.Asset THEN Err(s, "Unknown")
    ELSE LET class_details == s.Class[class]
             details0 == s.Asset[<<class, instance>>]
             needs_approval == details0.owner # origin /\ class_details.admin # origin
             approved == details0.approved = origin
             details1 == details0
         IN
         IF details0.is_frozen THEN Err(s, "Frozen")
         ELSE IF needs_approval /\ ~approved THEN Err(s, "NoPermission")
         ELSE Ret([s EXCEPT
                     !.Account = (@ \ {<<details0.owner, class, instance>>})
                                     \cup {<<dest, class, instance>>},
                     !.Asset = Put(@, <<class, instance>>, [details1 EXCEPT !.owner = dest])],
                  "Ok", <<Event("Transferred", <<class, instance, origin, dest>>)>>)

\* transfer whose permission test joins the owner and admin tests with || instead of &&
transfer_or_for_and(s, origin, class, instance, dest) ==
    IF origin = Root THEN Err(s, "BadOrigin")
    ELSE IF class \notin DOMAIN s.Class THEN Err(s, "Unknown")
    ELSE IF s.Class[class].is_frozen THEN Err(s, "Frozen")
    ELSE IF <<class, instance>> \notin DOMAIN s.Asset THEN Err(s, "Unknown")
    ELSE LET class_details == s.Class[class]
             details0 == s.Asset[<<class, instance>>]
             needs_approval == details0.owner # origin \/ class_details.admin # origin
             approved == details0.approved = origin
             details1 == IF needs_approval THEN [details0 EXCEPT !.approved = None] ELSE details0
         IN
         IF details0.is_frozen THEN Err(s, "Frozen")
         ELSE IF needs_approval /\ ~approved THEN Err(s, "NoPermission")
         ELSE Ret([s EXCEPT
                     !.Account = (@ \ {<<details0.owner, class, instance>>})
                                     \cup {<<dest, class, instance>>},
                     !.Asset = Put(@, <<class, instance>>, [details1 EXCEPT !.owner = dest])],
                  "Ok", <<Event("Transferred", <<class, instance, origin, dest>>)>>)

\* transfer that exempts the class admin from both freeze checks
transfer_admin_ignores_freeze(s, origin, class, instance, dest) ==
    IF origin = Root THEN Err(s, "BadOrigin")
    ELSE IF class \notin DOMAIN s.Class THEN Err(s, "Unknown")
    ELSE IF s.Class[class].is_frozen /\ s.Class[class].admin # origin THEN Err(s, "Frozen")
    ELSE IF <<class, instance>> \notin DOMAIN s.Asset THEN Err(s, "Unknown")
    ELSE LET class_details == s.Class[class]
             details0 == s.Asset[<<class, instance>>]
             needs_approval == details0.owner # origin /\ class_details.admin # origin
             approved == details0.approved = origin
             details1 == IF needs_approval THEN [details0 EXCEPT !.approved = None] ELSE details0
         IN
         IF details0.is_frozen /\ class_details.admin # origin THEN Err(s, "Frozen")
         ELSE IF needs_approval /\ ~approved THEN Err(s, "NoPermission")
         ELSE Ret([s EXCEPT
                     !.Account = (@ \ {<<details0.owner, class, instance>>})
                                     \cup {<<dest, class, instance>>},
                     !.Asset = Put(@, <<class, instance>>, [details1 EXCEPT !.owner = dest])],
                  "Ok", <<Event("Transferred", <<class, instance, origin, dest>>)>>)

\* transfer that takes the approval whoever signs
transfer_takes_approval_always(s, origin, class, instance, dest) ==
    IF origin = Root THEN Err(s, "BadOrigin")
    ELSE IF class \notin DOMAIN s.Class THEN Err(s, "Unknown")
    ELSE IF s.Class[class].is_frozen THEN Err(s, "Frozen")
    ELSE IF <<class, instance>> \notin DOMAIN s.Asset THEN Err(s, "Unknown")
    ELSE LET class_details == s.Class[class]
             details0 == s.Asset[<<class, instance>>]
             needs_approval == details0.owner # origin /\ class_details.admin # origin
             approved == details0.approved = origin
             details1 == [details0 EXCEPT !.approved = None]
         IN
         IF details0.is_frozen THEN Err(s, "Frozen")
         ELSE IF needs_approval /\ ~approved THEN Err(s, "NoPermission")
         ELSE Ret([s EXCEPT
                     !.Account = (@ \ {<<details0.owner, class, instance>>})
                                     \cup {<<dest, class, instance>>},
                     !.Asset = Put(@, <<class, instance>>, [details1 EXCEPT !.owner = dest])],
                  "Ok", <<Event("Transferred", <<class, instance, origin, dest>>)>>)

transfer(s, origin, class, instance, dest) ==
    IF origin = Root THEN Err(s, "BadOrigin")
    ELSE IF class \notin DOMAIN s.Class THEN Err(s, "Unknown")
    ELSE IF s.Class[class].is_frozen THEN Err(s, "Frozen")
    ELSE IF <<class, instance>> \notin DOMAIN s.Asset THEN Err(s, "Unknown")
    ELSE LET class_details == s.Class[class]
             details0 == s.Asset[<<class, instance>>]
             needs_approval == details0.owner # origin /\ class_details.admin # origin
             approved == details0.approved = origin
             \* details.approved.take() leaves None in the local copy
             details1 == IF needs_approval THEN [details0 EXCEPT !.approved = None]
                         ELSE details0
         IN
         IF details0.is_frozen THEN Err(s, "Frozen")
         ELSE IF needs_approval /\ ~approved THEN Err(s, "NoPermission")
         ELSE Ret([s EXCEPT
                     !.Account = (@ \ {<<details0.owner, class, instance>>})
                                     \cup {<<dest, class, instance>>},
                     !.Asset = Put(@, <<class, instance>>, [details1 EXCEPT !.owner = dest])],
                  "Ok", <<Event("Transferred", <<class, instance, origin, dest>>)>>)

freeze(s, origin, class, instance) ==
    IF origin = Root THEN Err(s, "BadOrigin")
    ELSE IF <<class, instance>> \notin DOMAIN s.Asset THEN Err(s, "Unknown")
    ELSE IF class \notin DOMAIN s.Class THEN Err(s, "Unknown")
    ELSE IF s.Class[class].freezer # origin THEN Err(s, "NoPermission")
    ELSE Ret([s EXCEPT !.Asset[<<class, instance>>].is_frozen = TRUE],
             "Ok", <<Event("Frozen", <<class, instance>>)>>)

\* thaw that is authorized against the freezer, as freeze is
thaw_by_freezer(s, origin, class, instance) ==
    IF origin = Root THEN Err(s, "BadOrigin")
    ELSE IF <<class, instance>> \notin DOMAIN s.Asset THEN Err(s, "Unknown")
    ELSE IF class \notin DOMAIN s.Class THEN Err(s, "Unknown")
    ELSE IF s.Class[class].freezer # origin THEN Err(s, "NoPermission")
    ELSE Ret([s EXCEPT !.Asset[<<class, instance>>].is_frozen = FALSE],
             "Ok", <<Event("Frozen", <<class, instance>>)>>)

thaw(s, origin, class, instance) ==
    IF origin = Root THEN Err(s, "BadOrigin")
    ELSE IF <<class, instance>> \notin DOMAIN s.Asset THEN Err(s, "Unknown")
    ELSE IF class \notin DOMAIN s.Class THEN Err(s, "Unknown")
    ELSE IF s.Class[class].admin # origin THEN Err(s, "NoPermission")
    ELSE Ret([s EXCEPT !.Asset[<<class, instance>>].is_frozen = FALSE],
             "Ok", <<Event("Frozen", <<class, instance>>)>>)

freeze_class(s, origin, class) ==
    IF origin = Root THEN Err(s, "BadOrigin")
    ELSE IF class \notin DOMAIN s.Class THEN Err(s, "Unknown")
    ELSE IF origin # s.Class[class].freezer THEN Err(s, "NoPermission")
    ELSE Ret([s EXCEPT !.Class[class].is_frozen = TRUE],
             "Ok", <<Event("ClassFrozen", <<class>>)>>)

thaw_class(s, origin, class) ==
    IF origin = Root THEN Err(s, "BadOrigin")
    ELSE IF class \notin DOMAIN s.Class THEN Err(s, "Unknown")
    ELSE IF origin # s.Class[class].admin THEN Err(s, "NoPermission")
    ELSE Ret([s EXCEPT !.Class[class].is_frozen = FALSE],
             "Ok", <<Event("ClassThawed", <<class>>)>>)

\* transfer_ownership that announces the owner before it finds it unchanged
transfer_ownership_announces_first(s, origin, class, owner, accepts) ==
    IF origin = Root THEN Err(s, "BadOrigin")
    ELSE IF class \notin DOMAIN s.Class THEN Err(s, "Unknown")
    ELSE LET details == s.Class[class] IN
         IF origin # details.owner THEN Err(s, "NoPermission")
         ELSE IF details.owner = owner
              THEN Ret(s, "Ok", <<Event("OwnerChanged", <<class, owner>>)>>)
         ELSE LET r == repatriate_reserved(s, details.owner, owner,
                                           details.total_deposit, accepts)
              IN  IF ~r.ok THEN Err(r.st, "CurrencyError")
                  ELSE Ret([r.st EXCEPT !.Class[class].owner = owner],
                           "Ok", <<Event("OwnerChanged", <<class, owner>>)>>)

transfer_ownership(s, origin, class, owner, accepts) ==
    IF origin = Root THEN Err(s, "BadOrigin")
    ELSE IF class \notin DOMAIN s.Class THEN Err(s, "Unknown")
    ELSE LET details == s.Class[class] IN
         IF origin # details.owner THEN Err(s, "NoPermission")
         ELSE IF details.owner = owner THEN Ret(s, "Ok", <<>>)
         ELSE LET r == repatriate_reserved(s, details.owner, owner,
                                           details.total_deposit, accepts)
              IN  IF ~r.ok THEN Err(r.st, "CurrencyError")
                  ELSE Ret([r.st EXCEPT !.Class[class].owner = owner],
                           "Ok", <<Event("OwnerChanged", <<class, owner>>)>>)

\* set_team that asks for the admin instead of the owner
set_team_by_admin(s, origin, class, issuer, admin, freezer) ==
    IF origin = Root THEN Err(s, "BadOrigin")
    ELSE IF class \notin DOMAIN s.Class THEN Err(s, "Unknown")
    ELSE IF origin # s.Class[class].admin THEN Err(s, "NoPermission")
    ELSE Ret([s EXCEPT !.Class[class].issuer = issuer,
                       !.Class[class].admin = admin,
                       !.Class[class].freezer = freezer],
             "Ok", <<Event("TeamChanged", <<class, issuer, admin, freezer>>)>>)

set_team(s, origin, class, issuer, admin, freezer) ==
    IF origin = Root THEN Err(s, "BadOrigin")
    ELSE IF class \notin DOMAIN s.Class THEN Err(s, "Unknown")
    ELSE IF origin # s.Class[class].owner THEN Err(s, "NoPermission")
    ELSE Ret([s EXCEPT !.Class[class].issuer = issuer,
                       !.Class[class].admin = admin,
                       !.Class[class].freezer = freezer],
             "Ok", <<Event("TeamChanged", <<class, issuer, admin, freezer>>)>>)

approve_transfer(s, origin, class, instance, delegate) ==
    IF origin = Root THEN Err(s, "BadOrigin")
    ELSE IF <<class, instance>> \notin DOMAIN s.Asset THEN Err(s, "Unknown")
    ELSE IF s.Asset[<<class, instance>>].owner # origin THEN Err(s, "NoPermission")
    ELSE Ret([s EXCEPT !.Asset[<<class, instance>>].approved = delegate],
             "Ok", <<Event("ApprovedTransfer", <<class, instance, origin, delegate>>)>>)

\* cancel_approval that announces the cancellation and leaves the delegate in place
cancel_approval_keeps_delegate(s, origin, class, instance, maybe_check_delegate) ==
    IF origin = Root THEN Err(s, "BadOrigin")
    ELSE IF <<class, instance>> \notin DOMAIN s.Asset THEN Err(s, "Unknown")
    ELSE LET details == s.Asset[<<class, instance>>]
             old == details.approved
         IN
         IF details.owner # origin THEN Err(s, "NoPermission")
         ELSE IF old = None THEN Err(s, "NoDelegate")
         ELSE IF maybe_check_delegate # None /\ maybe_check_delegate # old
              THEN Err(s, "WrongDelegate")
         ELSE Ret(s,
                  "Ok", <<Event("ApprovalCancelled", <<class, instance, origin, old>>)>>)

cancel_approval(s, origin, class, instance, maybe_check_delegate) ==
    IF origin = Root THEN Err(s, "BadOrigin")
    ELSE IF <<class, instance>> \notin DOMAIN s.Asset THEN Err(s, "Unknown")
    ELSE LET details == s.Asset[<<class, instance>>]
             old == details.approved
         IN
         IF details.owner # origin THEN Err(s, "NoPermission")
         ELSE IF old = None THEN Err(s, "NoDelegate")
         ELSE IF maybe_check_delegate # None /\ maybe_check_delegate # old
              THEN Err(s, "WrongDelegate")
         ELSE Ret([s EXCEPT !.Asset[<<class, instance>>].approved = None],
                  "Ok", <<Event("ApprovalCancelled", <<class, instance, origin, old>>)>>)

\* force_cancel_approval that does not compare the expected delegate
force_cancel_approval_any_delegate(s, origin, class, instance, maybe_check_delegate) ==
    IF origin # Root /\ class \notin DOMAIN s.Class THEN Err(s, "Unknown")
    ELSE IF origin # Root /\ origin # s.Class[class].admin THEN Err(s, "NoPermission")
    ELSE IF <<class, instance>> \notin DOMAIN s.Asset THEN Err(s, "Unknown")
    ELSE LET details == s.Asset[<<class, instance>>]
             old == details.approved
         IN
         IF old = None THEN Err(s, "NoDelegate")
         ELSE Ret([s EXCEPT !.Asset[<<class, instance>>].approved = None],
                  "Ok", <<Event("ApprovalCancelled", <<class, instance, details.owner, old>>)>>)

force_cancel_approval(s, origin, class, instance, maybe_check_delegate) ==
    IF origin # Root /\ class \notin DOMAIN s.Class THEN Err(s, "Unknown")
    ELSE IF origin # Root /\ origin # s.Class[class].admin THEN Err(s, "NoPermission")
    ELSE IF <<class, instance>> \notin DOMAIN s.Asset THEN Err(s, "Unknown")
    ELSE LET details == s.Asset[<<class, instance>>]
             old == details.approved
         IN
         IF old = None THEN Err(s, "NoDelegate")
         ELSE IF maybe_check_delegate # None /\ maybe_check_delegate # old
              THEN Err(s, "WrongDelegate")
         ELSE Ret([s EXCEPT !.Asset[<<class, instance>>].approved = None],
                  "Ok", <<Event("ApprovalCancelled", <<class, instance, details.owner, old>>)>>)

\* force_asset_status that also writes a fresh total_deposit
force_asset_status_clears_deposit(s, origin, class, owner, issuer, admin, freezer, free_holding, is_frozen) ==
    IF origin # Root THEN Err(s, "BadOrigin")
    ELSE IF class \notin DOMAIN s.Class THEN Err(s, "Unknown")
    ELSE Ret([s EXCEPT !.Class[class] =
                 [@ EXCEPT !.owner = owner, !.issuer = issuer, !.admin = admin,
                           !.freezer = freezer, !.free_holding = free_holding,
                           !.is_frozen = is_frozen, !.total_deposit = 0]],
             "Ok", <<Event("AssetStatusChanged", <<class>>)>>)

force_asset_status(s, origin, class, owner, issuer, admin, freezer, free_holding, is_frozen) ==
    IF origin # Root THEN Err(s, "BadOrigin")
    ELSE IF class \notin DOMAIN s.Class THEN Err(s, "Unknown")
    ELSE Ret([s EXCEPT !.Class[class] =
                 [@ EXCEPT !.owner = owner, !.issuer = issuer, !.admin = admin,
                           !.freezer = freezer, !.free_holding = free_holding,
                           !.is_frozen = is_frozen]],
             "Ok", <<Event("AssetStatusChanged", <<class>>)>>)

\* MetadataDepositPerByte * (name.len + info.len) + MetadataDepositBase
metadata_deposit(name, info) ==
    saturating_add(MetadataDepositPerByte * (Len(name) + Len(info)), MetadataDepositBase)

\* set_metadata that gives nothing back when the deposit shrinks
set_metadata_keeps_reserve(s, origin, class, instance, name, info, is_frozen) ==
    IF Len(name) > StringLimit THEN Err(s, "BadMetadata")
    ELSE IF Len(info) > StringLimit THEN Err(s, "BadMetadata")
    ELSE IF class \notin DOMAIN s.Class THEN Err(s, "Unknown")
    ELSE LET cd0 == s.Class[class]
             key == <<class, instance>>
             exists == key \in DOMAIN s.InstanceMetadataOf
             was_frozen == exists /\ s.InstanceMetadataOf[key].is_frozen
             old_deposit == IF exists THEN s.InstanceMetadataOf[key].deposit ELSE 0
             cd1 == [cd0 EXCEPT !.total_deposit = saturating_sub(@, old_deposit)]
             new_deposit == metadata_deposit(name, info)
             r == IF new_deposit > old_deposit
                  THEN reserve(s, origin, new_deposit - old_deposit)
                  ELSE [ok |-> TRUE, st |-> s]
             deposit == IF origin # Root THEN new_deposit ELSE old_deposit
             s1 == IF origin # Root THEN r.st ELSE s
             cd2 == [cd1 EXCEPT !.total_deposit = saturating_add(@, deposit)]
         IN
         IF origin # Root /\ origin # cd0.owner THEN Err(s, "NoPermission")
         ELSE IF key \notin DOMAIN s.Asset THEN Err(s, "Unknown")
         ELSE IF origin # Root /\ was_frozen THEN Err(s, "Frozen")
         ELSE IF origin # Root /\ ~r.ok THEN Err(r.st, "InsufficientBalance")
         ELSE Ret([s1 EXCEPT
                     !.Class = Put(@, class, cd2),
                     !.InstanceMetadataOf = Put(@, key,
                         [deposit |-> deposit, name |-> name, information |-> info,
                          is_frozen |-> is_frozen])],
                  "Ok", <<Event("MetadataSet", <<class, name, info, is_frozen>>)>>)

set_metadata(s, origin, class, instance, name, info, is_frozen) ==
    IF Len(name) > StringLimit THEN Err(s, "BadMetadata")
    ELSE IF Len(info) > StringLimit THEN Err(s, "BadMetadata")
    ELSE IF class \notin DOMAIN s.Class THEN Err(s, "Unknown")
    ELSE LET cd0 == s.Class[class]
             key == <<class, instance>>
             exists == key \in DOMAIN s.InstanceMetadataOf
             was_frozen == exists /\ s.InstanceMetadataOf[key].is_frozen
             old_deposit == IF exists THEN s.InstanceMetadataOf[key].deposit ELSE 0
             cd1 == [cd0 EXCEPT !.total_deposit = saturating_sub(@, old_deposit)]
             new_deposit == metadata_deposit(name, info)
             r == IF new_deposit > old_deposit
                  THEN reserve(s, origin, new_deposit - old_deposit)
                  ELSE [ok |-> TRUE, st |-> unreserve(s, origin, old_deposit - new_deposit)]
             deposit == IF origin # Root THEN new_deposit ELSE old_deposit
             s1 == IF origin # Root THEN r.st ELSE s
             cd2 == [cd1 EXCEPT !.total_deposit = saturating_add(@, deposit)]
         IN
         IF origin # Root /\ origin # cd0.owner THEN Err(s, "NoPermission")
         ELSE IF key \notin DOMAIN s.Asset THEN Err(s, "Unknown")
         ELSE IF origin # Root /\ was_frozen THEN Err(s, "Frozen")
         ELSE IF origin # Root /\ ~r.ok THEN Err(r.st, "InsufficientBalance")
         ELSE Ret([s1 EXCEPT
                     !.Class = Put(@, class, cd2),
                     !.InstanceMetadataOf = Put(@, key,
                         [deposit |-> deposit, name |-> name, information |-> info,
                          is_frozen |-> is_frozen])],
                  "Ok", <<Event("MetadataSet", <<class, name, info, is_frozen>>)>>)

\* clear_metadata that does not look at is_frozen
clear_metadata_ignores_frozen(s, origin, class, instance) ==
    IF class \notin DOMAIN s.Class THEN Err(s, "Unknown")
    ELSE LET cd0 == s.Class[class]
             key == <<class, instance>>
             exists == key \in DOMAIN s.InstanceMetadataOf
             was_frozen == exists /\ s.InstanceMetadataOf[key].is_frozen
         IN
         IF origin # Root /\ origin # cd0.owner THEN Err(s, "NoPermission")
         ELSE IF ~exists THEN Err(s, "Unknown")
         ELSE LET deposit == s.InstanceMetadataOf[key].deposit
                  s1 == unreserve(s, cd0.owner, deposit)
                  cd1 == [cd0 EXCEPT !.total_deposit = saturating_sub(@, deposit)]
              IN  Ret([s1 EXCEPT !.Class = Put(@, class, cd1),
                                 !.InstanceMetadataOf = Del(@, key)],
                      "Ok", <<Event("MetadataCleared", <<class>>)>>)

clear_metadata(s, origin, class, instance) ==
    IF class \notin DOMAIN s.Class THEN Err(s, "Unknown")
    ELSE LET cd0 == s.Class[class]
             key == <<class, instance>>
             exists == key \in DOMAIN s.InstanceMetadataOf
             was_frozen == exists /\ s.InstanceMetadataOf[key].is_frozen
         IN
         IF origin # Root /\ origin # cd0.owner THEN Err(s, "NoPermission")
         ELSE IF origin # Root /\ was_frozen THEN Err(s, "Frozen")
         ELSE IF ~exists THEN Err(s, "Unknown")
         ELSE LET deposit == s.InstanceMetadataOf[key].deposit
                  s1 == unreserve(s, cd0.owner, deposit)
                  cd1 == [cd0 EXCEPT !.total_deposit = saturating_sub(@, deposit)]
              IN  Ret([s1 EXCEPT !.Class = Put(@, class, cd1),
                                 !.InstanceMetadataOf = Del(@, key)],
                      "Ok", <<Event("MetadataCleared", <<class>>)>>)

\* set_class_metadata that checks the length of the name only
set_class_metadata_unchecked_info(s, origin, class, name, info, is_frozen) ==
    IF Len(name) > StringLimit THEN Err(s, "BadMetadata")
    ELSE IF class \notin DOMAIN s.Class THEN Err(s, "Unknown")
    ELSE LET details0 == s.Class[class]
             exists == class \in DOMAIN s.ClassMetadataOf
             was_frozen == exists /\ s.ClassMetadataOf[class].is_frozen
             old_deposit == IF exists THEN s.ClassMetadataOf[class].deposit ELSE 0
             details1 == [details0 EXCEPT !.total_deposit = saturating_sub(@, old_deposit)]
             new_deposit == metadata_deposit(name, info)
             r == IF new_deposit > old_deposit
                  THEN reserve(s, origin, new_deposit - old_deposit)
                  ELSE [ok |-> TRUE, st |-> unreserve(s, origin, old_deposit - new_deposit)]
             deposit == IF origin # Root THEN new_deposit ELSE old_deposit
             s1 == IF origin # Root THEN r.st ELSE s
             details2 == [details1 EXCEPT !.total_deposit = saturating_add(@, deposit)]
         IN
         IF origin # Root /\ origin # details0.owner THEN Err(s, "NoPermission")
         ELSE IF origin # Root /\ was_frozen THEN Err(s, "Frozen")
         ELSE IF origin # Root /\ ~r.ok THEN Err(r.st, "InsufficientBalance")
         ELSE Ret([s1 EXCEPT
                     !.Class = Put(@, class, details2),
                     !.ClassMetadataOf = Put(@, class,
                         [deposit |-> deposit, name |-> name, information |-> info,
                          is_frozen |-> is_frozen])],
                  "Ok", <<Event("ClassMetadataSet", <<class, name, info, is_frozen>>)>>)

set_class_metadata(s, origin, class, name, info, is_frozen) ==
    IF Len(name) > StringLimit THEN Err(s, "BadMetadata")
    ELSE IF Len(info) > StringLimit THEN Err(s, "BadMetadata")
    ELSE IF class \notin DOMAIN s.Class THEN Err(s, "Unknown")
    ELSE LET details0 == s.Class[class]
             exists == class \in DOMAIN s.ClassMetadataOf
             was_frozen == exists /\ s.ClassMetadataOf[class].is_frozen
             old_deposit == IF exists THEN s.ClassMetadataOf[class].deposit ELSE 0
             details1 == [details0 EXCEPT !.total_deposit = saturating_sub(@, old_deposit)]
             new_deposit == metadata_deposit(name, info)
             r == IF new_deposit > old_deposit
                  THEN reserve(s, origin, new_deposit - old_deposit)
                  ELSE [ok |-> TRUE, st |-> unreserve(s, origin, old_deposit - new_deposit)]
             deposit == IF origin # Root THEN new_deposit ELSE old_deposit
             s1 == IF origin # Root THEN r.st ELSE s
             details2 == [details1 EXCEPT !.total_deposit = saturating_add(@, deposit)]
         IN
         IF origin # Root /\ origin # details0.owner THEN Err(s, "NoPermission")
         ELSE IF origin # Root /\ was_frozen THEN Err(s, "Frozen")
         ELSE IF origin # Root /\ ~r.ok THEN Err(r.st, "InsufficientBalance")
         ELSE Ret([s1 EXCEPT
                     !.Class = Put(@, class, details2),
                     !.ClassMetadataOf = Put(@, class,
                         [deposit |-> deposit, name |-> name, information |-> info,
                          is_frozen |-> is_frozen])],
                  "Ok", <<Event("ClassMetadataSet", <<class, name, info, is_frozen>>)>>)

clear_class_metadata(s, origin, class) ==
    IF class \notin DOMAIN s.Class THEN Err(s, "Unknown")
    ELSE LET details == s.Class[class]
             exists == class \in DOMAIN s.ClassMetadataOf
             was_frozen == exists /\ s.ClassMetadataOf[class].is_frozen
         IN
         IF origin # Root /\ origin # details.owner THEN Err(s, "NoPermission")
         ELSE IF origin # Root /\ was_frozen THEN Err(s, "Frozen")
         ELSE IF ~exists THEN Err(s, "Unknown")
         ELSE LET deposit == s.ClassMetadataOf[class].deposit
                  s1 == unreserve(s, details.owner, deposit)
              IN  Ret([s1 EXCEPT !.ClassMetadataOf = Del(@, class)],
                      "Ok", <<Event("ClassMetadataCleared", <<class>>)>>)

\* ------------------------------------------------------------- actions
NoCall == [op |-> "none", origin |-> None, class |-> 0, instance |-> 0, res |-> "Ok"]
\* no call is being dispatched
Idle == last = NoCall

\* History of the run, kept for the properties below and read by no dispatchable.
\* paid[c]: what the call that created the live class c reserved for it.
PaidAfter(r, op, class) ==
    IF r.res # "Ok" THEN paid
    ELSE IF op = "create" THEN Put(paid, class, ClassDeposit)
    ELSE IF op = "force_create" THEN Put(paid, class, 0)
    ELSE IF op = "destroy" THEN Del(paid, class)
    ELSE paid

\* used: <<d, c, i>> when d has transferred the live instance (c, i) as its approved
\* delegate, being neither its owner nor the class admin, and no approve_transfer of
\* (c, i) has succeeded since.
UsedAfter(r, op, origin, class, instance) ==
    IF r.res # "Ok" THEN used
    ELSE IF /\ op = "transfer"
            /\ Asset[<<class, instance>>].approved = origin
            /\ Asset[<<class, instance>>].owner # origin
            /\ Class[class].admin # origin
         THEN used \cup {<<origin, class, instance>>}
    ELSE IF op \in {"approve_transfer", "burn"}
         THEN {u \in used : ~(u[2] = class /\ u[3] = instance)}
    ELSE IF op = "destroy" THEN {u \in used : u[2] # class}
    ELSE used

\* args: the arguments of the call being returned that last does not name
Apply(r, op, origin, class, instance, a) ==
    /\ r.res = "Ok" => calls < MaxCalls
    /\ calls' = IF r.res = "Ok" THEN calls + 1 ELSE calls
    /\ Class' = r.st.Class
    /\ Asset' = r.st.Asset
    /\ Account' = r.st.Account
    /\ ClassMetadataOf' = r.st.ClassMetadataOf
    /\ InstanceMetadataOf' = r.st.InstanceMetadataOf
    /\ free' = r.st.free
    /\ reserved' = r.st.reserved
    /\ emitted' = r.ev
    /\ last' = [op |-> op, origin |-> origin, class |-> class,
                instance |-> instance, res |-> r.res]
    /\ args' = a
    /\ paid' = PaidAfter(r, op, class)
    /\ used' = UsedAfter(r, op, origin, class, instance)

Create ==
    /\ Idle
    /\ \E origin \in Origins, class \in ClassIds, admin \in Accounts :
           Apply(create(Storage, origin, class, admin), "create", origin, class, 0, admin)

ForceCreate ==
    /\ Idle
    /\ \E origin \in Origins, class \in ClassIds, owner \in Accounts, free_holding \in BOOLEAN :
           Apply(force_create(Storage, origin, class, owner, free_holding),
                 "force_create", origin, class, 0, <<>>)

Witnesses == [instances : 0..Cardinality(InstanceIds), free_holds : 0..MaxFreeHolds]

Destroy ==
    /\ Idle
    /\ \E origin \in Origins, class \in ClassIds, witness \in Witnesses :
           Apply(destroy(Storage, origin, class, witness), "destroy", origin, class, 0, witness)

Mint ==
    /\ Idle
    /\ \E origin \in Origins, class \in ClassIds, instance \in InstanceIds, owner \in Accounts :
           /\ class \in DOMAIN Class => Class[class].free_holds < MaxFreeHolds
           /\ Apply(mint(Storage, origin, class, instance, owner),
                    "mint", origin, class, instance, owner)

Burn ==
    /\ Idle
    /\ \E origin \in Origins, class \in ClassIds, instance \in InstanceIds,
          check_owner \in OptAccounts :
           Apply(burn(Storage, origin, class, instance, check_owner),
                 "burn", origin, class, instance, check_owner)

Transfer ==
    /\ Idle
    /\ \E origin \in Origins, class \in ClassIds, instance \in InstanceIds, dest \in Accounts :
           Apply(transfer(Storage, origin, class, instance, dest),
                 "transfer", origin, class, instance, <<>>)

Freeze ==
    /\ Idle
    /\ \E origin \in Origins, class \in ClassIds, instance \in InstanceIds :
           Apply(freeze(Storage, origin, class, instance), "freeze", origin, class, instance, <<>>)

Thaw ==
    /\ Idle
    /\ \E origin \in Origins, class \in ClassIds, instance \in InstanceIds :
           Apply(thaw(Storage, origin, class, instance), "thaw", origin, class, instance, <<>>)

FreezeClass ==
    /\ Idle
    /\ \E origin \in Origins, class \in ClassIds :
           Apply(freeze_class(Storage, origin, class), "freeze_class", origin, class, 0, <<>>)

ThawClass ==
    /\ Idle
    /\ \E origin \in Origins, class \in ClassIds :
           Apply(thaw_class(Storage, origin, class), "thaw_class", origin, class, 0, <<>>)

TransferOwnership ==
    /\ Idle
    /\ \E origin \in Origins, class \in ClassIds, owner \in Accounts, accepts \in BOOLEAN :
           Apply(transfer_ownership(Storage, origin, class, owner, accepts),
                 "transfer_ownership", origin, class, 0, owner)

SetTeam ==
    /\ Idle
    /\ \E origin \in Origins, class \in ClassIds,
          issuer \in Accounts, admin \in Accounts, freezer \in Accounts :
           Apply(set_team(Storage, origin, class, issuer, admin, freezer),
                 "set_team", origin, class, 0, <<>>)

ApproveTransfer ==
    /\ Idle
    /\ \E origin \in Origins, class \in ClassIds, instance \in InstanceIds,
          delegate \in Accounts :
           Apply(approve_transfer(Storage, origin, class, instance, delegate),
                 "approve_transfer", origin, class, instance, delegate)

CancelApproval ==
    /\ Idle
    /\ \E origin \in Origins, class \in ClassIds, instance \in InstanceIds,
          maybe_check_delegate \in OptAccounts :
           Apply(cancel_approval(Storage, origin, class, instance, maybe_check_delegate),
                 "cancel_approval", origin, class, instance, maybe_check_delegate)

ForceCancelApproval ==
    /\ Idle
    /\ \E origin \in Origins, class \in ClassIds, instance \in InstanceIds,
          maybe_check_delegate \in OptAccounts :
           Apply(force_cancel_approval(Storage, origin, class, instance, maybe_check_delegate),
                 "force_cancel_approval", origin, class, instance, maybe_check_delegate)

ForceAssetStatus ==
    /\ Idle
    /\ \E origin \in Origins, class \in ClassIds, owner \in Accounts, team \in Accounts,
          free_holding \in BOOLEAN, is_frozen \in BOOLEAN :
           Apply(force_asset_status(Storage, origin, class, owner, team, team, team,
                                    free_holding, is_frozen),
                 "force_asset_status", origin, class, 0, <<>>)

SetMetadata ==
    /\ Idle
    /\ \E origin \in Origins, class \in ClassIds, instance \in InstanceIds,
          m \in MetadataInputs, is_frozen \in BOOLEAN :
           Apply(set_metadata(Storage, origin, class, instance, m[1], m[2], is_frozen),
                 "set_metadata", origin, class, instance, <<m[1], m[2], is_frozen>>)

ClearMetadata ==
    /\ Idle
    /\ \E origin \in Origins, class \in ClassIds, instance \in InstanceIds :
           Apply(clear_metadata(Storage, origin, class, instance),
                 "clear_metadata", origin, class, instance, <<>>)

SetClassMetadata ==
    /\ Idle
    /\ \E origin \in Origins, class \in ClassIds,
          m \in MetadataInputs, is_frozen \in BOOLEAN :
           /\ class \in DOMAIN Class => Class[class].total_deposit < MaxTotalDeposit
           /\ Apply(set_class_metadata(Storage, origin, class, m[1], m[2], is_frozen),
                    "set_class_metadata", origin, class, 0, <<m[1], m[2], is_frozen>>)

ClearClassMetadata ==
    /\ Idle
    /\ \E origin \in Origins, class \in ClassIds :
           Apply(clear_class_metadata(Storage, origin, class),
                 "clear_class_metadata", origin, class, 0, <<>>)

\* the dispatcher hands the result of the call back and takes the next extrinsic
Return ==
    /\ last # NoCall
    /\ last' = NoCall
    /\ args' = <<>>
    /\ emitted' = <<>>
    /\ UNCHANGED <<Class, Asset, Account, ClassMetadataOf, InstanceMetadataOf,
                   free, reserved, calls, paid, used>>

Init ==
    /\ Class = <<>>
    /\ Asset = <<>>
    /\ Account = {}
    /\ ClassMetadataOf = <<>>
    /\ InstanceMetadataOf = <<>>
    /\ free = [a \in Accounts |-> InitialFree]
    /\ reserved = [a \in Accounts |-> 0]
    /\ emitted = <<>>
    /\ args = <<>>
    /\ calls = 0
    /\ paid = <<>>
    /\ used = {}
    /\ last = NoCall

Next ==
    \/ Create
    \/ ForceCreate
    \/ Destroy
    \/ Mint
    \/ Burn
    \/ Transfer
    \/ Freeze
    \/ Thaw
    \/ FreezeClass
    \/ ThawClass
    \/ TransferOwnership
    \/ SetTeam
    \/ ApproveTransfer
    \/ CancelApproval
    \/ ForceCancelApproval
    \/ ForceAssetStatus
    \/ SetMetadata
    \/ ClearMetadata
    \/ SetClassMetadata
    \/ ClearClassMetadata
    \/ Return

Spec == Init /\ [][Next]_vars


\* ------------------------------------------- runs that start further in
\* the storage before any call
EmptyStorage ==
    [Class |-> <<>>, Asset |-> <<>>, Account |-> {},
     ClassMetadataOf |-> <<>>, InstanceMetadataOf |-> <<>>,
     free |-> [a \in Accounts |-> InitialFree], reserved |-> [a \in Accounts |-> 0]]

\* the variables hold the storage st and no call is being dispatched
StartsFrom(st) ==
    /\ Class = st.Class
    /\ Asset = st.Asset
    /\ Account = st.Account
    /\ ClassMetadataOf = st.ClassMetadataOf
    /\ InstanceMetadataOf = st.InstanceMetadataOf
    /\ free = st.free
    /\ reserved = st.reserved
    /\ emitted = <<>>
    /\ args = <<>>
    /\ calls = 0
    /\ used = {}
    /\ last = NoCall

\* The state after force_create(Root, class, owner, free_holding) and
\* mint(owner, class, instance, beneficiary) on the empty storage: runs from here reach
\* what takes two calls more than MaxCalls from Init.
InitMinted ==
    \E class \in ClassIds, instance \in InstanceIds, owner \in Accounts,
       beneficiary \in Accounts, free_holding \in BOOLEAN :
        LET created == force_create(EmptyStorage, Root, class, owner, free_holding)
            minted == mint(created.st, owner, class, instance, beneficiary)
        IN  /\ created.res = "Ok"
            /\ minted.res = "Ok"
            /\ StartsFrom(minted.st)
            /\ paid = Put(<<>>, class, 0)

\* the calls that touch the deposits of a minted instance and the owner of its class
NextMinted ==
    \/ Burn
    \/ TransferOwnership
    \/ ForceAssetStatus
    \/ SetMetadata
    \/ ClearMetadata
    \/ Return

SpecMinted == InitMinted /\ [][NextMinted]_vars

\* A class whose instances counter stands at U32Max or one below it. The instances
\* behind the counter whose ids lie outside InstanceIds are not kept in Asset: the
\* counter is the only thing of them that mint reads.
InitAtMax ==
    \E class \in ClassIds, owner \in Accounts, free_holding \in BOOLEAN,
       instances \in {U32Max - 1, U32Max} :
        /\ StartsFrom([EmptyStorage EXCEPT !.Class = Put(@, class,
               [owner |-> owner, issuer |-> owner, admin |-> owner, freezer |-> owner,
                total_deposit |-> 0, free_holding |-> free_holding,
                instances |-> instances, free_holds |-> 0, is_frozen |-> FALSE])])
        /\ paid = Put(<<>>, class, 0)

NextAtMax ==
    \/ Mint
    \/ Burn
    \/ Return

SpecAtMax == InitAtMax /\ [][NextAtMax]_vars

\* ---------------------------------------------------------- properties
RECURSIVE SumDeposit(_, _)
SumDeposit(m, keys) ==
    IF keys = {} THEN 0
    ELSE LET k == CHOOSE x \in keys : TRUE
         IN  m[k].deposit + SumDeposit(m, keys \ {k})

RECURSIVE SumTotalDeposit(_)
SumTotalDeposit(classes) ==
    IF classes = {} THEN 0
    ELSE LET c == CHOOSE x \in classes : TRUE
         IN  Class[c].total_deposit + SumTotalDeposit(classes \ {c})

LiveInstances(c) == {k \in DOMAIN Asset : k[1] = c}
LiveInstanceMetadata(c) == {k \in DOMAIN InstanceMetadataOf : k[1] = c}
ClassMetadataDeposit(c) ==
    IF c \in DOMAIN ClassMetadataOf THEN ClassMetadataOf[c].deposit ELSE 0

Called(op) == last.op = op
Succeeded(op) == last.op = op /\ last.res = "Ok"
Failed(op, e) == last.op = op /\ last.res = e

\* C1: for every live class, total_deposit is what its creation reserved (ClassDeposit
\* after create, 0 after force_create) plus the deposits of its live instances, of its
\* class metadata and of its live instance metadata.
C1_TotalDepositIsSumOfDeposits ==
    \A c \in DOMAIN Class :
        Class[c].total_deposit =
            paid[c] + SumDeposit(Asset, LiveInstances(c)) + ClassMetadataDeposit(c)
                + SumDeposit(InstanceMetadataOf, LiveInstanceMetadata(c))

\* C2: for every account, the balance reserved against it equals the sum of
\* total_deposit over the live classes it owns.
C2_ReservedIsTotalDepositOfOwnedClasses ==
    \A o \in Accounts :
        reserved[o] = SumTotalDeposit({c \in DOMAIN Class : Class[c].owner = o})

\* C3: a call that returns an error leaves the five maps, every free and reserved
\* balance and the event stream as they were before the call.
C3_ErrorLeavesStateUnchanged ==
    [][(last' # NoCall /\ last'.res # "Ok") =>
          /\ Class' = Class
          /\ Asset' = Asset
          /\ Account' = Account
          /\ ClassMetadataOf' = ClassMetadataOf
          /\ InstanceMetadataOf' = InstanceMetadataOf
          /\ free' = free
          /\ reserved' = reserved
          /\ emitted' = emitted]_vars

\* a mint came back with the Currency's refusal to reserve the instance deposit
C3_Witness ==
    /\ Failed("mint", "InsufficientBalance")
    /\ \E c \in DOMAIN Class :
          c = last.class /\ ~Class[c].free_holding /\ free[Class[c].owner] < InstanceDeposit

\* C4: for every live class, instances is the number of Asset entries of the class.
C4_InstancesCountsAssets ==
    \A c \in DOMAIN Class : Class[c].instances = Cardinality(LiveInstances(c))

\* a burn has returned Ok in a class that still holds an instance
C4_Witness ==
    /\ Succeeded("burn")
    /\ Cardinality(LiveInstances(last.class)) = 1

\* C5: for every live class, free_holds is at most instances and is the number of
\* live instances of the class whose deposit is 0.
C5_FreeHoldsCountsFreeInstances ==
    \A c \in DOMAIN Class :
        /\ Class[c].free_holds <= Class[c].instances
        /\ Class[c].free_holds =
               Cardinality({k \in LiveInstances(c) : Asset[k].deposit = 0})

\* C6: Account holds (a, c, i) exactly when Asset[(c, i)] exists with owner a.
C6_AccountMirrorsAssetOwners ==
    Account = {<<Asset[k].owner, k[1], k[2]>> : k \in DOMAIN Asset}

\* a transfer has returned Ok and the class holds an instance for each account
C6_Witness ==
    /\ Succeeded("transfer")
    /\ \A a \in Accounts : \E k \in DOMAIN Asset : Asset[k].owner = a

\* C7: instance metadata exists only for live instances and class metadata only for
\* live classes.
C7_MetadataOnlyForLiveEntries ==
    /\ DOMAIN InstanceMetadataOf \subseteq DOMAIN Asset
    /\ DOMAIN ClassMetadataOf \subseteq DOMAIN Class

\* an instance and its class both carry metadata
C7_Witness ==
    \E k \in DOMAIN InstanceMetadataOf : k[1] \in DOMAIN ClassMetadataOf

\* the call being returned is a transfer signed by an account
TransferCalled == last' # NoCall /\ last'.op = "transfer" /\ last'.origin \in Accounts
TransferKey == <<last'.class, last'.instance>>
\* before the call the instance and its class are live and neither is frozen
TransferableBefore ==
    /\ TransferKey \in DOMAIN Asset
    /\ last'.class \in DOMAIN Class
    /\ ~Asset[TransferKey].is_frozen
    /\ ~Class[last'.class].is_frozen

\* C8 as stated: a transfer signed by the approved delegate of a live unfrozen instance
\* in an unfrozen class returns Ok and leaves approved = None, and a later transfer of
\* that instance signed by the same account, with no approval given in between, returns
\* NoPermission.
C8_DelegateTransferConsumesApproval ==
    [][(TransferCalled /\ TransferableBefore) =>
          /\ Asset[TransferKey].approved = last'.origin =>
                (last'.res = "Ok" /\ Asset'[TransferKey].approved = None)
          /\ <<last'.origin, last'.class, last'.instance>> \in used =>
                last'.res = "NoPermission"]_vars

\* C8 as amended: the same for a delegate that is neither the owner of the instance nor
\* the admin of the class when it signs, at the first transfer and at the later one.
C8_OutsideDelegateConsumesApproval ==
    [][(/\ TransferCalled
        /\ TransferableBefore
        /\ last'.origin # Asset[TransferKey].owner
        /\ last'.origin # Class[last'.class].admin) =>
          /\ Asset[TransferKey].approved = last'.origin =>
                (last'.res = "Ok" /\ Asset'[TransferKey].approved = None)
          /\ <<last'.origin, last'.class, last'.instance>> \in used =>
                last'.res = "NoPermission"]_vars

\* a delegate that used its approval signed a transfer of the same instance again and
\* got NoPermission
C8_Witness ==
    /\ Failed("transfer", "NoPermission")
    /\ <<last.origin, last.class, last.instance>> \in used

\* C9: a transfer of a live unfrozen instance in a live unfrozen class returns Ok exactly
\* when the signer is the class admin, the instance owner or the approved delegate; for
\* any other signer it returns NoPermission and the instance's owner and approved field
\* and the Account index stay as they were.
C9_TransferPermission ==
    [][(TransferCalled /\ TransferableBefore) =>
          LET permitted ==
                  \/ last'.origin = Class[last'.class].admin
                  \/ last'.origin = Asset[TransferKey].owner
                  \/ last'.origin = Asset[TransferKey].approved
          IN  /\ (last'.res = "Ok") <=> permitted
              /\ ~permitted =>
                    /\ last'.res = "NoPermission"
                    /\ TransferKey \in DOMAIN Asset'
                    /\ Asset'[TransferKey].owner = Asset[TransferKey].owner
                    /\ Asset'[TransferKey].approved = Asset[TransferKey].approved
                    /\ Account' = Account]_vars

\* an account that is neither admin, owner nor the approved delegate signed a transfer
\* of a live unfrozen instance that has an approved delegate, and got NoPermission
C9_Witness ==
    /\ Failed("transfer", "NoPermission")
    /\ <<last.class, last.instance>> \in DOMAIN Asset
    /\ Asset[<<last.class, last.instance>>].approved \in Accounts \ {last.origin}

StorageAfter ==
    [Class |-> Class', Asset |-> Asset', Account |-> Account',
     ClassMetadataOf |-> ClassMetadataOf', InstanceMetadataOf |-> InstanceMetadataOf',
     free |-> free', reserved |-> reserved']
\* the call being returned is op
Returning(op) == last' # NoCall /\ last'.op = op

\* the call being returned is a destroy of a live class whose witness differs from the
\* stored counters in instances or in free_holds
WrongWitnessDestroy ==
    /\ Returning("destroy")
    /\ last'.class \in DOMAIN Class
    /\ \/ args'.instances # Class[last'.class].instances
       \/ args'.free_holds # Class[last'.class].free_holds

\* C11 as stated: destroy with a witness whose instances or free_holds differs from the
\* stored counters of the class returns BadWitness and leaves the class, its instances,
\* their Account entries, all metadata and all reserves as they were.
C11_WrongWitnessIsRefused ==
    [][WrongWitnessDestroy =>
          (last'.res = "BadWitness" /\ StorageAfter = Storage)]_vars

\* C11 as amended: the same when the origin is the force origin or the signed class
\* owner; any other signer is refused before the witness is looked at.
C11_PermittedWrongWitnessIsRefused ==
    [][(/\ WrongWitnessDestroy
        /\ last'.origin \in {Root, Class[last'.class].owner}) =>
          (last'.res = "BadWitness" /\ StorageAfter = Storage)]_vars

\* the class owner signed a destroy of a class holding an instance with the right
\* instances count and free_holds off by one, and got BadWitness
C11_Witness ==
    /\ Failed("destroy", "BadWitness")
    /\ last.class \in DOMAIN Class
    /\ last.origin = Class[last.class].owner
    /\ Class[last.class].instances > 0
    /\ args.instances = Class[last.class].instances
    /\ args.free_holds = Class[last.class].free_holds + 1

\* the keys of class c in the five maps are gone from st
NoEntryOf(st, c) ==
    /\ c \notin DOMAIN st.Class
    /\ c \notin DOMAIN st.ClassMetadataOf
    /\ \A k \in DOMAIN st.Asset : k[1] # c
    /\ \A k \in DOMAIN st.InstanceMetadataOf : k[1] # c
    /\ \A e \in st.Account : e[2] # c
\* the entries of every class but c are the same in st and in su
OtherClassesSame(st, su, c) ==
    /\ [d \in (DOMAIN st.Class) \ {c} |-> st.Class[d]] =
           [d \in (DOMAIN su.Class) \ {c} |-> su.Class[d]]
    /\ [d \in (DOMAIN st.ClassMetadataOf) \ {c} |-> st.ClassMetadataOf[d]] =
           [d \in (DOMAIN su.ClassMetadataOf) \ {c} |-> su.ClassMetadataOf[d]]
    /\ [k \in {x \in DOMAIN st.Asset : x[1] # c} |-> st.Asset[k]] =
           [k \in {x \in DOMAIN su.Asset : x[1] # c} |-> su.Asset[k]]
    /\ [k \in {x \in DOMAIN st.InstanceMetadataOf : x[1] # c} |-> st.InstanceMetadataOf[k]] =
           [k \in {x \in DOMAIN su.InstanceMetadataOf : x[1] # c} |-> su.InstanceMetadataOf[k]]
    /\ {e \in st.Account : e[2] # c} = {e \in su.Account : e[2] # c}

\* C12: a destroy that returns Ok, from the force origin or the class owner and whatever
\* the number of live instances, leaves no Class, ClassMetadataOf, Asset, Account or
\* InstanceMetadataOf entry of the class, lowers the reserved balance of the class owner
\* by exactly the class's total_deposit (which goes back to its free balance) and leaves
\* the entries of every other class as they were.
C12_DestroyRemovesClassAndRefunds ==
    [][(Returning("destroy") /\ last'.res = "Ok") =>
          LET c == last'.class
              o == Class[c].owner
              total_deposit == Class[c].total_deposit
          IN  /\ NoEntryOf(StorageAfter, c)
              /\ reserved' = [reserved EXCEPT ![o] = @ - total_deposit]
              /\ free' = [free EXCEPT ![o] = @ + total_deposit]
              /\ OtherClassesSame(Storage, StorageAfter, c)]_vars

\* C13 as stated: a call that returns Ok deposits exactly one event and a call that
\* returns an error deposits none, transfer_ownership to the current owner included.
C13_OneEventPerSuccess ==
    [][last' # NoCall =>
          Len(emitted') = IF last'.res = "Ok" THEN 1 ELSE 0]_vars

\* the call being returned is a transfer_ownership by the owner to the owner
OwnershipUnchanged ==
    /\ Returning("transfer_ownership")
    /\ last'.class \in DOMAIN Class
    /\ last'.origin = Class[last'.class].owner
    /\ args' = Class[last'.class].owner

\* C13 as amended: a call that returns Ok deposits exactly one event, except
\* transfer_ownership to the current owner, which returns Ok and deposits none; a call
\* that returns an error deposits none.
C13_OneEventPerEffectiveSuccess ==
    [][last' # NoCall =>
          /\ OwnershipUnchanged => last'.res = "Ok"
          /\ Len(emitted') = IF last'.res = "Ok" /\ ~OwnershipUnchanged THEN 1 ELSE 0]_vars

\* the owner of a class has transferred its ownership to itself
C13_Witness ==
    /\ Succeeded("transfer_ownership")
    /\ args = last.origin
    /\ emitted = <<>>

\* C14: a mint of an instance immediately followed by a burn of that instance leaves the
\* reserved balance of the class owner and the instances, free_holds and total_deposit
\* of the class as they were before the mint, with free_holding false and with
\* free_holding true. The step is the mint; the burn is every burn of that instance that
\* returns Ok in the state the mint leaves.
C14_MintThenBurnRestores ==
    [][(Returning("mint") /\ last'.res = "Ok") =>
          LET c == last'.class
              o == Class[c].owner
          IN  \A origin \in Origins, check_owner \in OptAccounts :
                 LET r == burn(StorageAfter, origin, c, last'.instance, check_owner)
                 IN  r.res = "Ok" =>
                        /\ r.st.reserved[o] = reserved[o]
                        /\ r.st.Class[c].instances = Class[c].instances
                        /\ r.st.Class[c].free_holds = Class[c].free_holds
                        /\ r.st.Class[c].total_deposit = Class[c].total_deposit]_vars

\* the call being returned is a mint or a burn that returns Ok in a class that has
\* free_holding = true
FreeHoldingMintOrBurn(op) ==
    /\ Returning(op)
    /\ last'.res = "Ok"
    /\ Class[last'.class].free_holding

\* C15 as stated: while a class has free_holding = true, a mint that returns Ok reserves
\* nothing, a burn that returns Ok unreserves nothing, and neither changes total_deposit.
C15_FreeHoldingTouchesNoDeposit ==
    [][(FreeHoldingMintOrBurn("mint") \/ FreeHoldingMintOrBurn("burn")) =>
          /\ reserved' = reserved
          /\ free' = free
          /\ Class'[last'.class].total_deposit = Class[last'.class].total_deposit]_vars

\* what a burn of the live instance k gives back: the deposit recorded on the instance
\* and the deposit recorded on its metadata
RecordedDeposit(k) ==
    Asset[k].deposit +
        (IF k \in DOMAIN InstanceMetadataOf THEN InstanceMetadataOf[k].deposit ELSE 0)

\* C15 as amended: while a class has free_holding = true, a mint that returns Ok reserves
\* nothing and leaves total_deposit as it was, and a burn that returns Ok takes off
\* total_deposit, and off the reserved balance of the class owner as far as that balance
\* goes, the deposits recorded on the instance and on its metadata and nothing else: a
\* burn of an instance minted under free_holding that has no metadata deposit unreserves
\* nothing and leaves total_deposit as it was.
C15_FreeHoldingBurnReturnsRecordedDeposit ==
    [][/\ FreeHoldingMintOrBurn("mint") =>
             /\ reserved' = reserved
             /\ free' = free
             /\ Asset'[<<last'.class, last'.instance>>].deposit = 0
             /\ Class'[last'.class].total_deposit = Class[last'.class].total_deposit
       /\ FreeHoldingMintOrBurn("burn") =>
             LET c == last'.class
                 o == Class[c].owner
                 d == RecordedDeposit(<<c, last'.instance>>)
                 back == Min(reserved[o], d)
             IN  /\ reserved' = [reserved EXCEPT ![o] = @ - back]
                 /\ free' = [free EXCEPT ![o] = @ + back]
                 /\ Class'[c].total_deposit = saturating_sub(Class[c].total_deposit, d)]_vars

\* a burn has returned Ok in a class with free_holding = true that has counted a mint
\* under free_holding and still holds a deposit
C15_Witness ==
    /\ Succeeded("burn")
    /\ last.class \in DOMAIN Class
    /\ Class[last.class].free_holding
    /\ Class[last.class].free_holds > 0
    /\ Class[last.class].total_deposit > 0
    /\ reserved[Class[last.class].owner] > 0

\* the reserved balances and the total_deposit of class c are the same in st and in su
SameDeposits(st, su, c) ==
    /\ st.reserved = su.reserved
    /\ st.Class[c].total_deposit = su.Class[c].total_deposit

\* C16 as stated: set_metadata(x) that returns Ok followed by set_metadata(y) that returns
\* Ok on the same instance ends with the same reserved balances and the same
\* total_deposit as the one set_metadata(y) that returns Ok from the state before the
\* pair, whichever of the force origin and the class owner makes each call. The step is
\* set_metadata(x); set_metadata(y) is applied to the state it leaves and to the state
\* before it.
C16_SetMetadataTwiceAsOnce ==
    [][(Returning("set_metadata") /\ last'.res = "Ok") =>
          \A origin \in Origins, y \in MetadataInputs, is_frozen \in BOOLEAN :
             LET c == last'.class
                 twice == set_metadata(StorageAfter, origin, c, last'.instance,
                                       y[1], y[2], is_frozen)
                 once == set_metadata(Storage, origin, c, last'.instance,
                                      y[1], y[2], is_frozen)
             IN  (twice.res = "Ok" /\ once.res = "Ok") =>
                    SameDeposits(twice.st, once.st, c)]_vars

\* the deposit stored with the metadata of the instance k, 0 when it has none
StoredMetadataDeposit(k) ==
    IF k \in DOMAIN InstanceMetadataOf THEN InstanceMetadataOf[k].deposit ELSE 0

\* C16 as amended: the same when set_metadata(y) is signed by the class owner or
\* set_metadata(x) is made by the force origin, for the total_deposit in every state and
\* for the reserved balances in every state where the class owner's reserved balance
\* covers the deposit stored with the instance's metadata.
C16_SetMetadataTwiceAsOnceKeepingDeposit ==
    [][(Returning("set_metadata") /\ last'.res = "Ok") =>
          \A origin \in Origins, y \in MetadataInputs, is_frozen \in BOOLEAN :
             LET c == last'.class
                 k == <<c, last'.instance>>
                 twice == set_metadata(StorageAfter, origin, c, last'.instance,
                                       y[1], y[2], is_frozen)
                 once == set_metadata(Storage, origin, c, last'.instance,
                                      y[1], y[2], is_frozen)
             IN  (/\ twice.res = "Ok"
                  /\ once.res = "Ok"
                  /\ (origin # Root \/ last'.origin = Root)) =>
                    /\ twice.st.Class[c].total_deposit = once.st.Class[c].total_deposit
                    /\ reserved[Class[c].owner] >= StoredMetadataDeposit(k) =>
                          twice.st.reserved = once.st.reserved]_vars

\* the class owner has set metadata with the largest deposit on an instance, and a
\* set_metadata with the smallest deposit signed by the owner returns Ok from there
C16_Witness ==
    /\ Succeeded("set_metadata")
    /\ last.origin = Class[last.class].owner
    /\ InstanceMetadataOf[<<last.class, last.instance>>].deposit =
           MetadataDepositBase + 2 * StringLimit * MetadataDepositPerByte
    /\ LET r == set_metadata(Storage, last.origin, last.class, last.instance,
                             <<>>, <<>>, FALSE)
       IN  /\ r.res = "Ok"
           /\ r.st.reserved[last.origin] < reserved[last.origin]

\* the call being returned is an approve_transfer that returns Ok, signed by the owner of
\* the instance
OwnerApproves ==
    /\ Returning("approve_transfer")
    /\ last'.res = "Ok"
    /\ last'.origin = Asset[<<last'.class, last'.instance>>].owner

\* C17 as stated: approve_transfer(d) by the instance owner followed by
\* cancel_approval(Some(d)) by the instance owner leaves all maps and balances as they
\* were before the pair, whatever approved was before. The step is approve_transfer(d);
\* cancel_approval(Some(d)) is applied to the state it leaves.
C17_ApproveThenCancelIsIdentity ==
    [][OwnerApproves =>
          LET r == cancel_approval(StorageAfter, last'.origin, last'.class,
                                   last'.instance, args')
          IN  r.res = "Ok" /\ r.st = Storage]_vars

\* C17 as amended: the pair leaves all maps and balances as they were before it except
\* that approved ends as None; the state is the one before the pair exactly when the
\* instance had no approved delegate then.
C17_ApproveThenCancelClearsApproval ==
    [][OwnerApproves =>
          LET k == <<last'.class, last'.instance>>
              r == cancel_approval(StorageAfter, last'.origin, last'.class,
                                   last'.instance, args')
          IN  /\ r.res = "Ok"
              /\ r.st = [Storage EXCEPT !.Asset[k].approved = None]
              /\ (r.st = Storage) <=> (Asset[k].approved = None)]_vars

\* the owner of an instance has approved the other account as delegate, and its
\* cancel_approval of that delegate returns Ok from there
C17_Witness ==
    /\ Succeeded("approve_transfer")
    /\ args # last.origin
    /\ Asset[<<last.class, last.instance>>].approved = args
    /\ cancel_approval(Storage, last.origin, last.class, last.instance, args).res = "Ok"

\* owner, issuer, admin and freezer of a class record
Roles(details) == <<details.owner, details.issuer, details.admin, details.freezer>>

\* the call being returned is a transfer_ownership that returns Ok and names an account
\* other than the current owner
OwnershipMoves ==
    /\ Returning("transfer_ownership")
    /\ last'.res = "Ok"
    /\ args' # Class[last'.class].owner

\* C18: transfer_ownership(new) signed by the owner followed by transfer_ownership(old)
\* signed by new leaves the reserved balance of every account and the four roles and
\* total_deposit of the class as they were before the pair. The step is
\* transfer_ownership(new); transfer_ownership(old) is applied to the state it leaves.
C18_OwnershipRoundTrip ==
    [][OwnershipMoves =>
          \A accepts \in BOOLEAN :
             LET c == last'.class
                 r == transfer_ownership(StorageAfter, args', c, Class[c].owner, accepts)
             IN  r.res = "Ok" =>
                    /\ r.st.reserved = reserved
                    /\ Roles(r.st.Class[c]) = Roles(Class[c])
                    /\ r.st.Class[c].total_deposit = Class[c].total_deposit]_vars

\* C19: a transfer_ownership(class, new) that returns Ok with new other than the current
\* owner lowers the old owner's reserved balance by exactly total_deposit, raises the
\* new owner's by the same amount, sets owner to new and leaves issuer, admin, freezer,
\* total_deposit and the counters as they were; signed by an account that is not the
\* current owner it returns NoPermission.
C19_OwnershipMovesWholeDeposit ==
    [][/\ OwnershipMoves =>
             LET c == last'.class
                 old == Class[c].owner
                 total_deposit == Class[c].total_deposit
             IN  /\ reserved' = [reserved EXCEPT ![old] = @ - total_deposit,
                                                 ![args'] = @ + total_deposit]
                 /\ Class'[c] = [Class[c] EXCEPT !.owner = args']
       /\ (/\ Returning("transfer_ownership")
           /\ last'.class \in DOMAIN Class
           /\ last'.origin \in Accounts \ {Class[last'.class].owner}) =>
             last'.res = "NoPermission"]_vars

\* C20: a clear_class_metadata that returns Ok removes the class metadata, unreserves
\* its stored deposit from the class owner and lowers total_deposit by that amount, as
\* clear_metadata does for an instance; a signed set_class_metadata that returns Ok
\* changes total_deposit by the new deposit less the old one.
C20_ClassMetadataDepositRules ==
    [][/\ (Returning("clear_class_metadata") /\ last'.res = "Ok") =>
             LET c == last'.class
                 o == Class[c].owner
                 deposit == ClassMetadataOf[c].deposit
             IN  /\ c \notin DOMAIN ClassMetadataOf'
                 /\ reserved' = [reserved EXCEPT ![o] = @ - Min(@, deposit)]
                 /\ Class'[c].total_deposit = Class[c].total_deposit - deposit
       /\ (Returning("set_class_metadata") /\ last'.res = "Ok" /\ last'.origin # Root) =>
             LET c == last'.class
             IN  Class'[c].total_deposit =
                    Class[c].total_deposit + metadata_deposit(args'[1], args'[2])
                        - ClassMetadataDeposit(c)]_vars

\* C21: create(class, admin) signed by S returns InUse when the class exists; otherwise,
\* when the Currency reserves ClassDeposit from S, it returns Ok, moves exactly
\* ClassDeposit from the free to the reserved balance of S and inserts the class with
\* owner S, issuer, admin and freezer the given admin, total_deposit ClassDeposit,
\* free_holding false, instances and free_holds 0 and is_frozen false, and nothing else
\* changes.
C21_CreateReservesAndInserts ==
    [][(Returning("create") /\ last'.origin \in Accounts) =>
          LET S == last'.origin
              c == last'.class
          IN  IF c \in DOMAIN Class
              THEN last'.res = "InUse" /\ StorageAfter = Storage
              ELSE IF free[S] >= ClassDeposit
              THEN /\ last'.res = "Ok"
                   /\ StorageAfter =
                         [Storage EXCEPT
                            !.free[S] = @ - ClassDeposit,
                            !.reserved[S] = @ + ClassDeposit,
                            !.Class = Put(@, c,
                               [owner |-> S, issuer |-> args', admin |-> args',
                                freezer |-> args', total_deposit |-> ClassDeposit,
                                free_holding |-> FALSE, instances |-> 0,
                                free_holds |-> 0, is_frozen |-> FALSE])]
              ELSE last'.res # "Ok" /\ StorageAfter = Storage]_vars

\* an account has created a class for another account to administer and holds the
\* class deposit in reserve
C21_Witness ==
    /\ Succeeded("create")
    /\ args # last.origin
    /\ Class[last.class].owner = last.origin
    /\ Class[last.class].admin = args
    /\ reserved[last.origin] = ClassDeposit
    /\ free[last.origin] = InitialFree - ClassDeposit

\* C22: a signed mint(class, instance, beneficiary) returns AlreadyExists if the instance
\* exists, else Unknown if the class is missing, else NoPermission if the signer is not
\* the class issuer, each time with nothing changed; when it returns Ok the new instance
\* has owner = beneficiary, approved = None, is_frozen = false and, in a free_holding
\* class, deposit 0 with no balance and no total_deposit changed, else deposit
\* InstanceDeposit, reserved from the class owner and added to total_deposit.
C22_MintChecksAndDeposit ==
    [][(Returning("mint") /\ last'.origin \in Accounts) =>
          LET c == last'.class
              k == <<c, last'.instance>>
          IN  IF k \in DOMAIN Asset
              THEN last'.res = "AlreadyExists" /\ StorageAfter = Storage
              ELSE IF c \notin DOMAIN Class
              THEN last'.res = "Unknown" /\ StorageAfter = Storage
              ELSE IF Class[c].issuer # last'.origin
              THEN last'.res = "NoPermission" /\ StorageAfter = Storage
              ELSE last'.res = "Ok" =>
                     LET o == Class[c].owner
                         deposit == IF Class[c].free_holding THEN 0 ELSE InstanceDeposit
                     IN  /\ Asset'[k] = [owner |-> args', approved |-> None,
                                         is_frozen |-> FALSE, deposit |-> deposit]
                         /\ reserved' = [reserved EXCEPT ![o] = @ + deposit]
                         /\ free' = [free EXCEPT ![o] = @ - deposit]
                         /\ Class'[c].total_deposit = Class[c].total_deposit + deposit]_vars

\* the issuer, who is not the class owner, has minted an instance for itself and the
\* class owner holds the instance deposit
C22_Witness ==
    /\ Succeeded("mint")
    /\ last.origin # Class[last.class].owner
    /\ args = last.origin
    /\ Asset[<<last.class, last.instance>>].deposit = InstanceDeposit
    /\ reserved[last.origin] = 0
    /\ reserved[Class[last.class].owner] > 0

\* C23: a signed burn of a live instance returns NoPermission unless the signer is the
\* class admin or the instance owner, else WrongOwner when check_owner is given and is
\* not the instance owner, each time with nothing changed, and else Ok; when it returns
\* Ok the Asset entry, the Account entry and the metadata of the instance are gone, and
\* the deposits recorded on the instance and on its metadata have left the reserved
\* balance of the class owner and total_deposit.
C23_BurnChecksAndRefund ==
    [][(/\ Returning("burn")
        /\ last'.origin \in Accounts
        /\ last'.class \in DOMAIN Class
        /\ <<last'.class, last'.instance>> \in DOMAIN Asset) =>
          LET c == last'.class
              k == <<c, last'.instance>>
              o == Class[c].owner
              d == RecordedDeposit(k)
          IN  IF ~(Class[c].admin = last'.origin \/ Asset[k].owner = last'.origin)
              THEN last'.res = "NoPermission" /\ StorageAfter = Storage
              ELSE IF args' # None /\ args' # Asset[k].owner
              THEN last'.res = "WrongOwner" /\ StorageAfter = Storage
              ELSE /\ last'.res = "Ok"
                   /\ k \notin DOMAIN Asset'
                   /\ <<Asset[k].owner, c, last'.instance>> \notin Account'
                   /\ k \notin DOMAIN InstanceMetadataOf'
                   /\ reserved' = [reserved EXCEPT ![o] = @ - d]
                   /\ free' = [free EXCEPT ![o] = @ + d]
                   /\ Class'[c].total_deposit = Class[c].total_deposit - d]_vars

\* the call being returned is op, signed, on a live instance of a live class
SignedOnLiveInstance(op) ==
    /\ Returning(op)
    /\ last'.origin \in Accounts
    /\ last'.class \in DOMAIN Class
    /\ <<last'.class, last'.instance>> \in DOMAIN Asset

C25_ForceAssetStatusFrame ==
    [][(Returning("force_asset_status") /\ last'.res = "Ok") =>
          LET c == last'.class
              after == Class'[c]
          IN  StorageAfter =
                 [Storage EXCEPT !.Class[c] =
                     [@ EXCEPT !.owner = after.owner, !.issuer = after.issuer,
                               !.admin = after.admin, !.freezer = after.freezer,
                               !.free_holding = after.free_holding,
                               !.is_frozen = after.is_frozen]]]_vars

\* force_asset_status has given a class that holds an instance and a deposit to an owner
\* with nothing reserved
C25_Witness ==
    /\ Succeeded("force_asset_status")
    /\ Class[last.class].instances > 0
    /\ Class[last.class].total_deposit > 0
    /\ reserved[Class[last.class].owner] = 0

\* the call being returned is op on an instance whose metadata is frozen
OnFrozenMetadata(op) ==
    /\ Returning(op)
    /\ <<last'.class, last'.instance>> \in DOMAIN InstanceMetadataOf
    /\ InstanceMetadataOf[<<last'.class, last'.instance>>].is_frozen
\* the name and the info of the call being returned are within StringLimit
WithinStringLimit == Len(args'[1]) <= StringLimit /\ Len(args'[2]) <= StringLimit

\* C26: when the metadata of an instance has is_frozen = true, set_metadata (with name
\* and info within StringLimit) and clear_metadata signed by the class owner return
\* Frozen and change nothing, and the same calls from the force origin return Ok; a
\* set_metadata from the force origin that returns Ok keeps the stored deposit (0 when
\* there was no metadata) and changes neither total_deposit nor any balance.
C26_FrozenMetadataYieldsToForce ==
    [][/\ (OnFrozenMetadata("set_metadata") /\ WithinStringLimit) =>
             IF last'.origin = Root THEN last'.res = "Ok"
             ELSE last'.origin = Class[last'.class].owner =>
                     (last'.res = "Frozen" /\ StorageAfter = Storage)
       /\ OnFrozenMetadata("clear_metadata") =>
             IF last'.origin = Root
             THEN /\ last'.res = "Ok"
                  /\ <<last'.class, last'.instance>> \notin DOMAIN InstanceMetadataOf'
             ELSE last'.origin = Class[last'.class].owner =>
                     (last'.res = "Frozen" /\ StorageAfter = Storage)
       /\ (Returning("set_metadata") /\ last'.origin = Root /\ last'.res = "Ok") =>
             LET c == last'.class
                 k == <<c, last'.instance>>
             IN  /\ InstanceMetadataOf'[k].deposit = StoredMetadataDeposit(k)
                 /\ Class'[c].total_deposit = Class[c].total_deposit
                 /\ reserved' = reserved
                 /\ free' = free]_vars

\* the class owner signed a clear_metadata of frozen metadata that holds a deposit and
\* got Frozen
C26_Witness ==
    /\ Failed("clear_metadata", "Frozen")
    /\ last.origin = Class[last.class].owner
    /\ InstanceMetadataOf[<<last.class, last.instance>>].is_frozen
    /\ InstanceMetadataOf[<<last.class, last.instance>>].deposit > 0

\* C27: a set_metadata signed by the class owner that returns Ok stores the deposit
\* MetadataDepositBase + MetadataDepositPerByte * (name.len + info.len), moves the
\* difference to the stored deposit between the free and the reserved balance of the
\* signer (reserving an increase, unreserving a decrease) and changes total_deposit by
\* the same difference; a clear_metadata that follows it unreserves exactly the stored
\* deposit from the class owner. The step is set_metadata; clear_metadata is applied to
\* the state it leaves.
C27_MetadataDepositDifferential ==
    [][(/\ Returning("set_metadata")
        /\ last'.res = "Ok"
        /\ last'.origin # Root) =>
          LET c == last'.class
              k == <<c, last'.instance>>
              S == last'.origin
              old_deposit == StoredMetadataDeposit(k)
              new_deposit == MetadataDepositBase +
                                MetadataDepositPerByte * (Len(args'[1]) + Len(args'[2]))
          IN  /\ S = Class[c].owner
              /\ InstanceMetadataOf'[k].deposit = new_deposit
              /\ reserved' = [reserved EXCEPT ![S] = @ + new_deposit - old_deposit]
              /\ free' = [free EXCEPT ![S] = @ - new_deposit + old_deposit]
              /\ Class'[c].total_deposit =
                     Class[c].total_deposit + new_deposit - old_deposit
              /\ \A origin \in {Root, S} :
                    LET r == clear_metadata(StorageAfter, origin, c, last'.instance)
                    IN  r.res = "Ok" =>
                           r.st.reserved = [reserved' EXCEPT ![S] = @ - new_deposit]]_vars

\* C28: a mint by the issuer of a new instance in a class whose instances counter is at
\* U32Max returns Overflow and changes nothing: the counter does not wrap, nothing is
\* reserved and no Asset or Account entry is inserted.
C28_MintAtMaxOverflows ==
    [][(/\ Returning("mint")
        /\ last'.class \in DOMAIN Class
        /\ Class[last'.class].instances = U32Max
        /\ Class[last'.class].issuer = last'.origin
        /\ <<last'.class, last'.instance>> \notin DOMAIN Asset) =>
          (last'.res = "Overflow" /\ StorageAfter = Storage)]_vars

\* a mint has brought the counter to U32Max, and the issuer's mint of the next instance
\* got Overflow
C28_Witness ==
    /\ Failed("mint", "Overflow")
    /\ Class[last.class].instances = U32Max
    /\ Class[last.class].issuer = last.origin
    /\ \E k \in DOMAIN Asset : k[1] = last.class /\ k[2] # last.instance

\* the call being returned is set_metadata or set_class_metadata
SettingMetadata == Returning("set_metadata") \/ Returning("set_class_metadata")

\* C29: set_metadata and set_class_metadata, from a signed and from the force origin,
\* return BadMetadata and change nothing when the name or the info is longer than
\* StringLimit, and never return BadMetadata when both are within StringLimit, lengths
\* of exactly StringLimit included: from the force origin on a live class (and instance)
\* they then return Ok.
C29_StringLimit ==
    [][SettingMetadata =>
          IF WithinStringLimit
          THEN /\ last'.res # "BadMetadata"
               /\ (/\ last'.origin = Root
                   /\ last'.class \in DOMAIN Class
                   /\ last'.op = "set_metadata" =>
                          <<last'.class, last'.instance>> \in DOMAIN Asset) =>
                     last'.res = "Ok"
          ELSE last'.res = "BadMetadata" /\ StorageAfter = Storage]_vars

\* the class owner has set class metadata whose name and info both have length
\* StringLimit
C29_Witness ==
    /\ Succeeded("set_class_metadata")
    /\ last.origin = Class[last.class].owner
    /\ Len(args[1]) = StringLimit
    /\ Len(args[2]) = StringLimit
    /\ ClassMetadataOf[last.class].name = args[1]
    /\ ClassMetadataOf[last.class].information = args[2]

\* a signed set_metadata whose info is one byte longer than StringLimit got BadMetadata
C29_TooLongRefused ==
    /\ Failed("set_metadata", "BadMetadata")
    /\ last.origin \in Accounts
    /\ Len(args[1]) = 0
    /\ Len(args[2]) = StringLimit + 1

\* the call being returned is a cancel_approval signed by the owner of a live instance,
\* or a force_cancel_approval of a live instance from the force origin or signed by the
\* admin of its class
PermittedCancel ==
    /\ <<last'.class, last'.instance>> \in DOMAIN Asset
    /\ \/ /\ Returning("cancel_approval")
          /\ last'.origin = Asset[<<last'.class, last'.instance>>].owner
       \/ /\ Returning("force_cancel_approval")
          /\ \/ last'.origin = Root
             \/ /\ last'.class \in DOMAIN Class
                /\ last'.origin = Class[last'.class].admin

\* C30: a permitted cancel_approval or force_cancel_approval returns NoDelegate when the
\* instance has no approved delegate, WrongDelegate when an expected delegate is given
\* and differs from the approved one, and changes nothing in both cases; otherwise it
\* returns Ok, sets approved to None, changes nothing else and emits ApprovalCancelled
\* once.
C30_CancelApprovalRules ==
    [][PermittedCancel =>
          LET k == <<last'.class, last'.instance>>
              old == Asset[k].approved
          IN
          IF old = None
          THEN last'.res = "NoDelegate" /\ StorageAfter = Storage
          ELSE IF args' # None /\ args' # old
          THEN last'.res = "WrongDelegate" /\ StorageAfter = Storage
          ELSE /\ last'.res = "Ok"
               /\ StorageAfter = [Storage EXCEPT !.Asset[k].approved = None]
               /\ emitted' = <<Event("ApprovalCancelled",
                                     <<k[1], k[2], Asset[k].owner, old>>)>>]_vars

\* the class admin, who does not own the instance, has cancelled its approval through
\* force_cancel_approval, naming the delegate
C30_Witness ==
    /\ Succeeded("force_cancel_approval")
    /\ last.origin = Class[last.class].admin
    /\ last.origin # Asset[<<last.class, last.instance>>].owner
    /\ args # None
    /\ Asset[<<last.class, last.instance>>].approved = None
    /\ Len(emitted) = 1 /\ emitted[1].name = "ApprovalCancelled"

\* the call being returned is a successful transfer signed by the owner of the instance
\* or by the admin of its class
TransferByOwnerOrAdmin ==
    /\ Returning("transfer")
    /\ last'.res = "Ok"
    /\ \/ last'.origin = Asset[<<last'.class, last'.instance>>].owner
       \/ last'.origin = Class[last'.class].admin

\* C31: a successful transfer signed by the instance owner or by the class admin leaves
\* the instance's approved field as it was, and when a delegate is approved, a transfer
\* signed by that delegate right after, to any destination, succeeds.
C31_ApprovalOutlivesTransfer ==
    [][TransferByOwnerOrAdmin =>
          LET k == <<last'.class, last'.instance>>
              delegate == Asset[k].approved
          IN
          /\ Asset'[k].approved = delegate
          /\ delegate # None =>
                \A dest \in Accounts :
                   LET r == transfer(StorageAfter, delegate, k[1], k[2], dest)
                   IN  r.res = "Ok" /\ r.st.Asset[k].owner = dest]_vars

\* an owner who had approved a delegate has transferred the instance to another account:
\* the approval is still in place and the delegate, who is neither the new owner nor
\* the class admin, can transfer the instance away
C31_Witness ==
    /\ Succeeded("transfer")
    /\ LET k == <<last.class, last.instance>>
       IN  /\ Asset[k].approved # None
           /\ Asset[k].approved # Asset[k].owner
           /\ Asset[k].approved # Class[last.class].admin
           /\ last.origin # Asset[k].owner
           /\ transfer(Storage, Asset[k].approved, k[1], k[2], Asset[k].approved).res = "Ok"

\* every instance, reverse-index entry and metadata entry belongs to a live class
ClassOfEveryEntryLives ==
    /\ \A k \in DOMAIN Asset : k[1] \in DOMAIN Class
    /\ \A e \in Account : e[2] \in DOMAIN Class
    /\ \A k \in DOMAIN InstanceMetadataOf : k[1] \in DOMAIN Class
    /\ \A c \in DOMAIN ClassMetadataOf : c \in DOMAIN Class

\* the call being returned is a successful create or force_create and the class it
\* made has no instance, no reverse-index entry, no metadata and zeroed counters
CreatedClassIsFresh ==
    (/\ Returning("create") \/ Returning("force_create")
     /\ last'.res = "Ok") =>
       LET c == last'.class IN
       /\ c \notin DOMAIN Class
       /\ c \in DOMAIN Class'
       /\ Class'[c].instances = 0
       /\ Class'[c].free_holds = 0
       /\ \A k \in DOMAIN Asset' : k[1] # c
       /\ \A e \in Account' : e[2] # c
       /\ \A k \in DOMAIN InstanceMetadataOf' : k[1] # c
       /\ c \notin DOMAIN ClassMetadataOf'

\* C32: in every reachable state every Asset, Account and metadata entry belongs to a
\* class that exists in Class, and a class made by a successful create or force_create,
\* its id used before or not, starts with no instances, no reverse-index entries and no
\* metadata.
C32_NoEntryOutlivesItsClass ==
    []ClassOfEveryEntryLives /\ [][CreatedClassIsFresh]_vars

\* a class id is created again after an earlier life: only create and force_create
\* succeed on an id that is not live and both refuse a live one, so a create that is
\* the third success or later follows a destroy of the same id
C32_Witness ==
    /\ Succeeded("create")
    /\ calls >= 3
    /\ last.class \in DOMAIN Class
    /\ Class[last.class].instances = 0
    /\ LiveInstances(last.class) = {}

\* the call being returned succeeded on class c and is a transfer_ownership or set_team
\* signed by the owner of c, or a force_asset_status from the force origin
MayChangeRoles(c) ==
    /\ last' # NoCall
    /\ last'.res = "Ok"
    /\ last'.class = c
    /\ \/ /\ last'.op \in {"transfer_ownership", "set_team"}
          /\ last'.origin = Class[c].owner
       \/ /\ last'.op = "force_asset_status"
          /\ last'.origin = Root

\* C33: the owner, issuer, admin and freezer of a class that is live before and after a
\* step differ only when the step is a successful transfer_ownership or set_team signed
\* by the owner the class had before the step, or a successful force_asset_status from
\* the force origin.
C33_RolesChangeOnlyByOwnerOrForce ==
    [][\A c \in (DOMAIN Class) \cap (DOMAIN Class') :
          Roles(Class'[c]) # Roles(Class[c]) => MayChangeRoles(c)]_vars

\* the admin of a class, who is also its issuer and freezer but not its owner, signed a
\* set_team and was refused
C33_Witness ==
    /\ Failed("set_team", "NoPermission")
    /\ last.class \in DOMAIN Class
    /\ last.origin = Class[last.class].admin
    /\ last.origin = Class[last.class].issuer
    /\ last.origin = Class[last.class].freezer
    /\ last.origin # Class[last.class].owner

====
